---------------------------- MODULE Spec2Model ----------------------------
(***************************************************************************)
(* A model of the RotorSE component network (src/src/rotorse/rotor.py).    *)
(*                                                                         *)
(* Each component's solve_nonlinear is one action.  Real numbers are       *)
(* modelled the way numpy computes them: every value is a binary floating  *)
(* point number, and every arithmetic operation returns the exact result   *)
(* rounded to the nearest representable number (ties to even).  The model  *)
(* keeps MantBits significant bits where float64 keeps 53; the exponent is *)
(* unbounded.  A number is a pair <<n, d>>: the rational n/d in lowest     *)
(* terms with d > 0, or one of the IEEE specials <<0,0>> (nan), <<1,0>>    *)
(* (+inf), <<-1,0>> (-inf).                                                *)
(***************************************************************************)
EXTENDS Integers, Sequences, FiniteSets, TLC

VARIABLES
    \* --- GridSetup / RGrid ---
    initial_aero_grid,  \* params['initial_aero_grid'] of GridSetup
    initial_str_grid,   \* params['initial_str_grid'] of GridSetup
    fraction,           \* unknowns['fraction'] of GridSetup
    idxj,               \* unknowns['idxj'] of GridSetup (0-based, as in the code)
    r_aero,             \* params['r_aero'] of RGrid
    r_str,              \* unknowns['r_str'] of RGrid
    gpc,                \* which of the two components have run
    \* --- ResizeCompositeSection ---
    heap,               \* the numpy arrays of ply thicknesses, by object identity
    upperCSIn,          \* params['upperCSIn']: one CompositeSection per station
    lowerCSIn,          \* params['lowerCSIn']
    websCSIn,           \* params['websCSIn']
    chord_str_ref,      \* params['chord_str_ref']
    chord_str,          \* params['chord_str']
    sector_idx_strain_spar, \* params['sector_idx_strain_spar']
    sector_idx_strain_te,   \* params['sector_idx_strain_te']
    sparT_str,          \* params['sparT_str']
    teT_str,            \* params['teT_str']
    upperCSOut,         \* unknowns['upperCSOut']
    lowerCSOut,         \* unknowns['lowerCSOut']
    websCSOut,          \* unknowns['websCSOut']
    rpc,                \* "start" before ResizeCompositeSection has run, "done" after
    \* --- RotorWithpBEAM (strain part; one section of the beam: numpy works
    \*     element by element on the arrays over the sections) ---
    beam_EIxx,          \* params['beam:EIxx']
    beam_EIyy,          \* params['beam:EIyy']
    beam_EIxy,          \* params['beam:EIxy']
    beam_x_ec_str,      \* params['beam:x_ec_str']
    beam_y_ec_str,      \* params['beam:y_ec_str']
    beam_EA,            \* params['beam:EA']
    EI11, EI22, EA, ca, sa, \* what principalCS returned to solve_nonlinear
    ppc,                \* "start" before the call of principalCS, "done" after
    \* --- RootMoment ---
    aeroLoads_r,        \* params['aeroLoads:r']
    aeroLoads_Px,       \* params['aeroLoads:Px']
    aeroLoads_Py,       \* params['aeroLoads:Py']
    aeroLoads_Pz,       \* params['aeroLoads:Pz']
    rm_r_str,           \* params['r_str'] of RootMoment
    totalCone,          \* params['totalCone'] (degrees)
    x_az, y_az, z_az,   \* params['x_az'], params['y_az'], params['z_az']
    rm_s,               \* params['s'] of RootMoment
    root_bending_moment, \* unknowns['root_bending_moment']
    Mxyz,               \* unknowns['Mxyz']
    Fxyz,               \* unknowns['Fxyz']
    mpc,                \* "start" before RootMoment has run, "done" after
    \* --- RotorSE (the group) ---
    order,              \* the components run so far in the current evaluation
    prov,               \* per component, the components its outputs are computed from
    evals,              \* the number of the current evaluation of the group
    \* --- TurbineClass and GustETM ---
    turbine_class,      \* params['turbine_class'] of TurbineClass
    V_mean,             \* unknowns['V_mean'] of TurbineClass, params['V_mean'] of GustETM
    V_extreme,          \* unknowns['V_extreme']
    V_extreme_full,     \* unknowns['V_extreme_full']
    turbulence_class,   \* params['turbulence_class'] of GustETM
    V_hub,              \* params['V_hub'] of GustETM
    std,                \* params['std'] of GustETM
    V_gust,             \* unknowns['V_gust'] of GustETM
    wpc,                \* which of the two components have run, or the exception raised
    \* --- GeometrySpline (twist and radii) and OutputsAero ---
    spline_params,      \* params of GeometrySpline, by name
    spline_unknowns,    \* unknowns of GeometrySpline, by name
    hub_diameter,       \* unknowns['hub_diameter'] of OutputsAero
    spc,                \* which of the two components have run, or the exception raised
    \* --- BladeCurvature ---
    curvature_params,   \* params of BladeCurvature, by name
    curvature_self,     \* the attributes kept on the component object (self.r, ..., self.J)
    curvature_unknowns, \* unknowns of BladeCurvature, by name
    curvature_J,        \* what linearize returned
    cpc,                \* "set" (inputs set), "solved" or "linearized"
    cevals,             \* the number of the current evaluation of the component
    \* --- BladeDeflection ---
    blade_defl_params,  \* params of BladeDeflection, by name
    blade_defl_self,    \* self.length0, self.length, self.shortening, self.delta.x
    blade_defl_unknowns, \* unknowns of BladeDeflection, by name
    dpc,                \* "start" before BladeDeflection has run, "done" after
    \* --- RotorWithpBEAM.damage (one section) ---
    damage_args,        \* the arguments of damage, by name
    damageU, damageL,   \* what damage returned
    fpc,                \* "start" before the call of damage, "done" after
    \* --- AirfoilShape (geometry_tools/geometry.py) ---
    airfoil,            \* self.sLE, the coordinate s and the transforms applied to it
    \* --- ExtremeLoads ---
    extreme_params,     \* params of ExtremeLoads, by name
    extreme_self,       \* self.T_extreme and self.Q_extreme
    extreme_unknowns,   \* unknowns of ExtremeLoads, by name
    epc,                \* "set" before ExtremeLoads has run, "solved" after
    \* --- OutputsAero and OutputsStructures ---
    outputs_comp,       \* which of the two components this is
    outputs_params,     \* params of the component, by name
    outputs_unknowns,   \* unknowns of the component, by name
    outputs_J,          \* what linearize returned, by key
    opc,                \* "set", "solved" or "linearized"
    \* --- RotorSE: the connections of the blade-tip precurve ---
    naero,              \* the number of aerodynamic stations RotorSE was built with
    nstr,               \* the number of structural stations RotorSE was built with
    precurve_str,       \* unknowns['precurve_str'] of spline
    precurveTip,        \* the precurveTip input of each consumer, by target name
    transferred,        \* the number of connections transferred so far
    tpc,                \* "transfer", "done" after OutputsAero has run, or the exception raised
    \* --- RGrid with its linearize ---
    rgrid_params,       \* params of RGrid, by name
    rgrid_unknowns,     \* unknowns['r_str'] of RGrid
    rgrid_J,            \* what linearize returned: J['r_str', 'r_aero']
    rgrid_held,         \* r_aero and r_str of the evaluation before, as the caller holds them
    jpc,                \* "set", "solved" or "linearized"
    \* --- FASTLoadCases.post_process.post_AEP ---
    aep_params,         \* params['Vrated'], params['V_R25'], params['control_ratedPower']
    aep_data,           \* the power-curve cases: np.mean(datai['GenPwr'])*1000. of each
    aep_U,              \* the local U of post_AEP
    aep_P_fast,         \* the local P_fast of post_AEP
    aep_unknowns,       \* unknowns['P_out'], as the spline it is evaluated from
    apc,                \* "set", "done", or the exception raised
    \* --- FASTLoadCases.post_process ---
    post_params,        \* params of FASTLoadCases read by post_process, and R_out
    case_keys,          \* case_keys, as DLC_creation returned it
    FAST_Output,        \* FAST_Output: the time series of each case, a list of samples
    post_i,             \* how many entries of case_keys the loop has taken
    Gust_Outputs,       \* the local Gust_Outputs
    Extreme_Outputs,    \* the local Extreme_Outputs
    AEP_Outputs,        \* the local AEP_Outputs
    post_calls,         \* the calls of post_AEP, post_gust and post_extreme made so far, each with its data
    post_unknowns,      \* unknowns, as post_process has written it
    lpc,                \* "loop" inside the loop, "done" after it, or the exception raised
    \* --- FASTLoadCases.solve_nonlinear ---
    fast_self,          \* self.Analysis_Level and self.clean_FAST_directory
    fast_params,        \* params of FASTLoadCases; fst_vt_in is a reference into fast_heap
    fast_heap,          \* the dictionaries of FAST inputs, by reference
    fast_unknowns,      \* unknowns of FASTLoadCases; fst_vt_out is a reference into fast_heap
    fast_dir,           \* what self.FAST_runDirectory holds
    fast_trace,         \* the methods solve_nonlinear has called, in order
    fast_pc             \* "set" before solve_nonlinear, "returned" after it, or the exception raised

gridVars == <<initial_aero_grid, initial_str_grid, fraction, idxj, r_aero, r_str, gpc>>

resizeIn == <<upperCSIn, lowerCSIn, websCSIn, chord_str_ref, chord_str,
              sector_idx_strain_spar, sector_idx_strain_te, sparT_str, teT_str>>
resizeVars == <<heap, resizeIn, upperCSOut, lowerCSOut, websCSOut, rpc>>

beamIn == <<beam_EIxx, beam_EIyy, beam_EIxy, beam_x_ec_str, beam_y_ec_str, beam_EA>>
beamVars == <<beamIn, EI11, EI22, EA, ca, sa, ppc>>
momentIn == <<aeroLoads_r, aeroLoads_Px, aeroLoads_Py, aeroLoads_Pz, rm_r_str, totalCone,
              x_az, y_az, z_az, rm_s>>
momentVars == <<momentIn, root_bending_moment, Mxyz, Fxyz, mpc>>
groupVars == <<order, prov, evals>>
windVars == <<turbine_class, V_mean, V_extreme, V_extreme_full, turbulence_class, V_hub,
              std, V_gust, wpc>>
splineVars == <<spline_params, spline_unknowns, hub_diameter, spc>>
curvatureVars == <<curvature_params, curvature_self, curvature_unknowns, curvature_J,
                   cpc, cevals>>
deflVars == <<blade_defl_params, blade_defl_self, blade_defl_unknowns, dpc>>
damageVars == <<damage_args, damageU, damageL, fpc>>
airfoilVars == <<airfoil>>
extremeVars == <<extreme_params, extreme_self, extreme_unknowns, epc>>
outputsVars == <<outputs_comp, outputs_params, outputs_unknowns, outputs_J, opc>>
tipVars == <<naero, nstr, precurve_str, precurveTip, transferred, tpc>>
rgridVars == <<rgrid_params, rgrid_unknowns, rgrid_J, rgrid_held, jpc>>
aepVars == <<aep_params, aep_data, aep_U, aep_P_fast, aep_unknowns, apc>>
postVars == <<post_params, case_keys, FAST_Output, post_i, Gust_Outputs, Extreme_Outputs,
              AEP_Outputs, post_calls, post_unknowns, lpc>>
fastVars == <<fast_self, fast_params, fast_heap, fast_unknowns, fast_dir, fast_trace,
              fast_pc>>
lateVars == <<airfoilVars, extremeVars, outputsVars, tipVars, rgridVars, aepVars,
              postVars, fastVars>>
vars == <<gridVars, resizeVars, beamVars, momentVars, groupVars,
          windVars, splineVars, curvatureVars, deflVars, damageVars, lateVars>>

\* what an action of one component group leaves alone
core == <<gridVars, resizeVars, beamVars, momentVars, groupVars>>
notGrid == <<resizeVars, beamVars, momentVars, groupVars,
             windVars, splineVars, curvatureVars, deflVars, damageVars, lateVars>>
notResize == <<gridVars, beamVars, momentVars, groupVars,
               windVars, splineVars, curvatureVars, deflVars, damageVars, lateVars>>
notBeam == <<gridVars, resizeVars, momentVars, groupVars,
             windVars, splineVars, curvatureVars, deflVars, damageVars, lateVars>>
notMoment == <<gridVars, resizeVars, beamVars, groupVars,
               windVars, splineVars, curvatureVars, deflVars, damageVars, lateVars>>
notGroup == <<gridVars, resizeVars, beamVars, momentVars,
              windVars, splineVars, curvatureVars, deflVars, damageVars, lateVars>>
notWind == <<core, splineVars, curvatureVars, deflVars, damageVars, lateVars>>
notSpline == <<core, windVars, curvatureVars, deflVars, damageVars, lateVars>>
notCurvature == <<core, windVars, splineVars, deflVars, damageVars, lateVars>>
notDefl == <<core, windVars, splineVars, curvatureVars, damageVars, lateVars>>
notDamage == <<core, windVars, splineVars, curvatureVars, deflVars, lateVars>>
early == <<core, windVars, splineVars, curvatureVars, deflVars, damageVars>>
notAirfoil == <<early, extremeVars, outputsVars, tipVars, rgridVars, aepVars, postVars,
                fastVars>>
notExtreme == <<early, airfoilVars, outputsVars, tipVars, rgridVars, aepVars, postVars,
                fastVars>>
notOutputs == <<early, airfoilVars, extremeVars, tipVars, rgridVars, aepVars, postVars,
                fastVars>>
notTip == <<early, airfoilVars, extremeVars, outputsVars, rgridVars, aepVars, postVars,
            fastVars>>
notRGridJ == <<early, airfoilVars, extremeVars, outputsVars, tipVars, aepVars, postVars,
               fastVars>>
notAEP == <<early, airfoilVars, extremeVars, outputsVars, tipVars, rgridVars, postVars,
            fastVars>>
notPost == <<early, airfoilVars, extremeVars, outputsVars, tipVars, rgridVars, aepVars,
             fastVars>>
notFast == <<early, airfoilVars, extremeVars, outputsVars, tipVars, rgridVars, aepVars,
             postVars>>

\* the components of the other specifications, not instantiated
GridIdle ==
    /\ initial_aero_grid = <<>> /\ initial_str_grid = <<>> /\ r_aero = <<>>
    /\ fraction = <<>> /\ idxj = <<>> /\ r_str = <<>> /\ gpc = "idle"
ResizeIdle ==
    /\ heap = <<>> /\ upperCSIn = <<>> /\ lowerCSIn = <<>> /\ websCSIn = <<>>
    /\ chord_str_ref = <<>> /\ chord_str = <<>>
    /\ sector_idx_strain_spar = <<>> /\ sector_idx_strain_te = <<>>
    /\ sparT_str = <<>> /\ teT_str = <<>>
    /\ upperCSOut = <<>> /\ lowerCSOut = <<>> /\ websCSOut = <<>> /\ rpc = "idle"
BeamIdle ==
    /\ beam_EIxx = <<>> /\ beam_EIyy = <<>> /\ beam_EIxy = <<>>
    /\ beam_x_ec_str = <<>> /\ beam_y_ec_str = <<>> /\ beam_EA = <<>>
    /\ EI11 = <<>> /\ EI22 = <<>> /\ EA = <<>> /\ ca = <<>> /\ sa = <<>> /\ ppc = "idle"
MomentIdle ==
    /\ aeroLoads_r = <<>> /\ aeroLoads_Px = <<>> /\ aeroLoads_Py = <<>> /\ aeroLoads_Pz = <<>>
    /\ rm_r_str = <<>> /\ totalCone = <<>> /\ x_az = <<>> /\ y_az = <<>> /\ z_az = <<>>
    /\ rm_s = <<>>
    /\ root_bending_moment = <<>> /\ Mxyz = <<>> /\ Fxyz = <<>> /\ mpc = "idle"
GroupIdle == order = <<>> /\ prov = <<>> /\ evals = 0
WindIdle ==
    /\ turbine_class = <<>> /\ V_mean = <<>> /\ V_extreme = <<>> /\ V_extreme_full = <<>>
    /\ turbulence_class = <<>> /\ V_hub = <<>> /\ std = <<>> /\ V_gust = <<>> /\ wpc = "idle"
SplineIdle ==
    spline_params = <<>> /\ spline_unknowns = <<>> /\ hub_diameter = <<>> /\ spc = "idle"
CurvatureIdle ==
    /\ curvature_params = <<>> /\ curvature_self = <<>> /\ curvature_unknowns = <<>>
    /\ curvature_J = <<>> /\ cpc = "idle" /\ cevals = 0
DeflIdle ==
    /\ blade_defl_params = <<>> /\ blade_defl_self = <<>> /\ blade_defl_unknowns = <<>>
    /\ dpc = "idle"
DamageIdle == damage_args = <<>> /\ damageU = <<>> /\ damageL = <<>> /\ fpc = "idle"
CoreIdle == GridIdle /\ ResizeIdle /\ BeamIdle /\ MomentIdle /\ GroupIdle
EarlyIdle == CoreIdle /\ WindIdle /\ SplineIdle /\ CurvatureIdle /\ DeflIdle /\ DamageIdle
AirfoilIdle == airfoil = <<>>
ExtremeIdle == extreme_params = <<>> /\ extreme_self = <<>> /\ extreme_unknowns = <<>> /\
               epc = "idle"
OutputsIdle == outputs_comp = <<>> /\ outputs_params = <<>> /\ outputs_unknowns = <<>> /\
               outputs_J = <<>> /\ opc = "idle"
TipIdle == naero = 0 /\ nstr = 0 /\ precurve_str = <<>> /\ precurveTip = <<>> /\
           transferred = 0 /\ tpc = "idle"
RGridJIdle == rgrid_params = <<>> /\ rgrid_unknowns = <<>> /\ rgrid_J = <<>> /\
              rgrid_held = <<>> /\ jpc = "idle"
AEPIdle == aep_params = <<>> /\ aep_data = <<>> /\ aep_U = <<>> /\ aep_P_fast = <<>> /\
           aep_unknowns = <<>> /\ apc = "idle"
PostIdle == post_params = <<>> /\ case_keys = <<>> /\ FAST_Output = <<>> /\ post_i = 0 /\
            Gust_Outputs = FALSE /\ Extreme_Outputs = FALSE /\ AEP_Outputs = FALSE /\
            post_calls = <<>> /\ post_unknowns = <<>> /\ lpc = "idle"
FastIdle == fast_self = <<>> /\ fast_params = <<>> /\ fast_heap = <<>> /\
            fast_unknowns = <<>> /\ fast_dir = "idle" /\ fast_trace = <<>> /\
            fast_pc = "idle"
LateIdle == AirfoilIdle /\ ExtremeIdle /\ OutputsIdle /\ TipIdle /\ RGridJIdle /\
            AEPIdle /\ PostIdle /\ FastIdle
OnlyAirfoil == EarlyIdle /\ ExtremeIdle /\ OutputsIdle /\ TipIdle /\ RGridJIdle /\
               AEPIdle /\ PostIdle /\ FastIdle
OnlyExtreme == EarlyIdle /\ AirfoilIdle /\ OutputsIdle /\ TipIdle /\ RGridJIdle /\
               AEPIdle /\ PostIdle /\ FastIdle
OnlyOutputs == EarlyIdle /\ AirfoilIdle /\ ExtremeIdle /\ TipIdle /\ RGridJIdle /\
               AEPIdle /\ PostIdle /\ FastIdle
OnlyTip == EarlyIdle /\ AirfoilIdle /\ ExtremeIdle /\ OutputsIdle /\ RGridJIdle /\
           AEPIdle /\ PostIdle /\ FastIdle
OnlyRGridJ == EarlyIdle /\ AirfoilIdle /\ ExtremeIdle /\ OutputsIdle /\ TipIdle /\
              AEPIdle /\ PostIdle /\ FastIdle
OnlyAEP == EarlyIdle /\ AirfoilIdle /\ ExtremeIdle /\ OutputsIdle /\ TipIdle /\
           RGridJIdle /\ PostIdle /\ FastIdle
OnlyPost == EarlyIdle /\ AirfoilIdle /\ ExtremeIdle /\ OutputsIdle /\ TipIdle /\
            RGridJIdle /\ AEPIdle /\ FastIdle
OnlyFast == EarlyIdle /\ AirfoilIdle /\ ExtremeIdle /\ OutputsIdle /\ TipIdle /\
            RGridJIdle /\ AEPIdle /\ PostIdle



---------------------------------------------------------------------------
(* Bounds of the model *)

\* significant bits of a floating point number (float64: 53)
MantBits == 4
\* grid values are the decimal literals k/GridDen, k = 0..GridDen, rounded
GridDen == 5
\* number of aerodynamic stations (naero)
NAero == 2
\* number of structural stations (nstr)
NStr == 2
\* ply thicknesses are the literals k/ThickDen
ThickDen == 8
\* target thicknesses are the literals k/TargetDen
TargetDen == 10
\* evaluations of the RotorSE group by the outer driver
MaxEvals == 3
\* number of stations of each grid given to GeometrySpline (naero, nstr)
NSpline == 3
\* the coordinates along an airfoil surface are the literals k/SDen, rounded
SDen == 8
\* number of points of the splined power curve (npts_spline_power_curve)
NPower == 2

---------------------------------------------------------------------------
(* numpy float64 arithmetic, at MantBits bits *)

Abs(x) == IF x < 0 THEN -x ELSE x

RECURSIVE GCD(_, _)
GCD(a, b) == IF b = 0 THEN a ELSE GCD(b, a % b)

RECURSIVE Pow2(_)
Pow2(k) == IF k <= 0 THEN 1 ELSE 2 * Pow2(k - 1)

NaN == <<0, 0>>
PosInf == <<1, 0>>
NegInf == <<-1, 0>>
Zero == <<0, 1>>
One == <<1, 1>>

IsNaN(x) == x[2] = 0 /\ x[1] = 0
IsInf(x) == x[2] = 0 /\ x[1] # 0
IsFinite(x) == x[2] # 0
Sign(n) == IF n > 0 THEN 1 ELSE IF n < 0 THEN -1 ELSE 0

\* the rational n/d in lowest terms (d # 0)
Rat(n, d) ==
    LET g == GCD(Abs(n), Abs(d))
        s == IF d < 0 THEN -1 ELSE 1
    IN  <<(s * n) \div g, (s * d) \div g>>

\* least k >= 0 with n * 2^k >= lo
RECURSIVE ShiftUp(_, _, _)
ShiftUp(n, lo, k) == IF n * Pow2(k) >= lo THEN k ELSE ShiftUp(n, lo, k + 1)

\* least k >= 0 with n < hi * 2^k
RECURSIVE ShiftDown(_, _, _)
ShiftDown(n, hi, k) == IF n < hi * Pow2(k) THEN k ELSE ShiftDown(n, hi, k + 1)

\* round-half-even of the positive rational n/d to an integer
RoundHalfEven(n, d) ==
    LET q == n \div d
        r == n % d
    IN  IF 2 * r > d \/ (2 * r = d /\ q % 2 = 1) THEN q + 1 ELSE q

\* the representable number nearest to the exact value x
Fl(x) ==
    IF x[2] = 0 \/ x[1] = 0 THEN x
    ELSE LET n == Abs(x[1])
             d == x[2]
             up == ShiftUp(n, Pow2(MantBits - 1) * d, 0)
             dn == ShiftDown(n, Pow2(MantBits) * d, 0)
             m == RoundHalfEven(n * Pow2(up), d * Pow2(dn))
         IN  Rat(Sign(x[1]) * m * Pow2(dn), Pow2(up))

\* x + y
FAdd(x, y) ==
    IF IsNaN(x) \/ IsNaN(y) THEN NaN
    ELSE IF IsInf(x) /\ IsInf(y) THEN (IF x = y THEN x ELSE NaN)
    ELSE IF IsInf(x) THEN x
    ELSE IF IsInf(y) THEN y
    ELSE LET g == GCD(x[2], y[2])
         IN  Fl(Rat(x[1] * (y[2] \div g) + y[1] * (x[2] \div g), x[2] * (y[2] \div g)))

\* -x
FNeg(x) == <<-x[1], x[2]>>

\* x - y
FSub(x, y) == FAdd(x, FNeg(y))

\* x * y
FMul(x, y) ==
    IF IsNaN(x) \/ IsNaN(y) THEN NaN
    ELSE IF IsInf(x) \/ IsInf(y)
         THEN (IF x[1] = 0 \/ y[1] = 0 THEN NaN ELSE <<Sign(x[1]) * Sign(y[1]), 0>>)
    ELSE Fl(Rat(x[1] * y[1], x[2] * y[2]))

\* x / y (a numpy scalar division: 0/0 is nan and x/0 is inf, with a warning)
FDiv(x, y) ==
    IF IsNaN(x) \/ IsNaN(y) THEN NaN
    ELSE IF IsInf(x) THEN (IF IsInf(y) THEN NaN
                           ELSE <<Sign(x[1]) * (IF y[1] < 0 THEN -1 ELSE 1), 0>>)
    ELSE IF IsInf(y) THEN Zero
    ELSE IF y[1] = 0 THEN (IF x[1] = 0 THEN NaN ELSE <<Sign(x[1]), 0>>)
    ELSE Fl(Rat(x[1] * y[2], x[2] * y[1]))

\* x >= y, x > y, x = y (every comparison with nan is false)
FGe(x, y) ==
    /\ ~IsNaN(x) /\ ~IsNaN(y)
    /\ IF IsInf(x) \/ IsInf(y)
       THEN (IF IsInf(x) THEN x[1] > 0 \/ x = y ELSE y[1] < 0)
       ELSE x[1] * y[2] >= y[1] * x[2]
FEq(x, y) == ~IsNaN(x) /\ ~IsNaN(y) /\ x = y
FGt(x, y) == FGe(x, y) /\ x # y
FLt(x, y) == FGt(y, x)
FLe(x, y) == FGe(y, x)

\* least k >= 0 with n * 4^k >= lo
RECURSIVE ShiftUp4(_, _, _)
ShiftUp4(n, lo, k) == IF n * Pow2(2 * k) >= lo THEN k ELSE ShiftUp4(n, lo, k + 1)

\* least k >= 0 with n < hi * 4^k
RECURSIVE ShiftDown4(_, _, _)
ShiftDown4(n, hi, k) == IF n < hi * Pow2(2 * k) THEN k ELSE ShiftDown4(n, hi, k + 1)

\* sqrt(x), correctly rounded: s is the integer part of the root of x scaled
\* into MantBits + 1 bits, whose last bit and remainder decide the rounding
FSqrt(x) ==
    IF IsNaN(x) \/ x[1] < 0 THEN NaN
    ELSE IF x[2] = 0 \/ x[1] = 0 THEN x
    ELSE LET up == ShiftUp4(x[1], Pow2(2 * MantBits) * x[2], 0)
             dn == ShiftDown4(x[1], Pow2(2 * MantBits + 2) * x[2], 0)
             N == x[1] * Pow2(2 * up)
             D == x[2] * Pow2(2 * dn)
             s == CHOOSE r \in Pow2(MantBits)..(Pow2(MantBits + 1) - 1) :
                      r * r * D <= N /\ (r + 1) * (r + 1) * D > N
             m == s \div 2
             q == IF s % 2 = 1 /\ (s * s * D # N \/ m % 2 = 1) THEN m + 1 ELSE m
         IN  Rat(2 * q * Pow2(dn), Pow2(up))

\* a Python literal k/den as a float
Lit(k, den) == Fl(Rat(k, den))

---------------------------------------------------------------------------
(* Sequences are indexed from 0 in the code and from 1 here *)

At(s, j) == s[j + 1]

\* the strictly increasing sequences of n grid values in [0, 1]
GridValues == {Lit(k, GridDen) : k \in 0..GridDen}
IsStrictlyIncreasing(s) == \A i \in 1..(Len(s) - 1) : FLt(s[i], s[i + 1])
Grids(n) == {s \in [1..n -> GridValues] : IsStrictlyIncreasing(s)}

---------------------------------------------------------------------------
(* GridSetup and RGrid *)

\* np.concatenate([[0.0], r_aero, [1.0]])
r_aug(aero) == <<Zero>> \o aero \o <<One>>

\* for j in range(1, naug): if r_aug[j] >= r_str[i]: j -= 1; break
\* the value of j after the loop (naug - 1 when the loop ends without a break)
RECURSIVE BracketWrong(_, _, _)
BracketWrong(aug, r, j) ==
    IF FGt(At(aug, j), r) THEN j - 1
    ELSE IF j + 1 < Len(aug) THEN BracketWrong(aug, r, j + 1)
    ELSE j

RECURSIVE Bracket(_, _, _)
Bracket(aug, r, j) ==
    IF FGe(At(aug, j), r) THEN j - 1
    ELSE IF j + 1 < Len(aug) THEN Bracket(aug, r, j + 1)
    ELSE j

\* (r_str[i] - r_aug[j]) / (r_aug[j+1] - r_aug[j])
Fraction(aug, r, j) ==
    FDiv(FSub(r, At(aug, j)), FSub(At(aug, j + 1), At(aug, j)))

\* r_aug[j] + fraction[i]*(r_aug[j+1] - r_aug[j])
ReconstructWrong(aug, f, j) ==
    FAdd(At(aug, j + 1), FMul(f, FSub(At(aug, j + 1), At(aug, j))))

Reconstruct(aug, f, j) ==
    FAdd(At(aug, j), FMul(f, FSub(At(aug, j + 1), At(aug, j))))

GridSetup_solve_nonlinear ==
    /\ gpc = "start"
    /\ LET aug == r_aug(initial_aero_grid)
           js == [i \in 1..Len(initial_str_grid) |-> Bracket(aug, initial_str_grid[i], 1)]
       IN  IF \E i \in 1..Len(initial_str_grid) : js[i] + 1 >= Len(aug)
           THEN \* r_aug[j+1] is out of range: IndexError
                /\ gpc' = "IndexError"
                /\ UNCHANGED <<fraction, idxj>>
           ELSE /\ idxj' = js
                /\ fraction' = [i \in 1..Len(initial_str_grid) |->
                                    Fraction(aug, initial_str_grid[i], js[i])]
                /\ gpc' = "gridsetup"
    /\ UNCHANGED <<initial_aero_grid, initial_str_grid, r_aero, r_str>>
    /\ UNCHANGED notGrid

RGrid_solve_nonlinear ==
    /\ gpc = "gridsetup"
    /\ LET aug == r_aug(r_aero)
       IN  r_str' = [i \in 1..Len(fraction) |-> Reconstruct(aug, fraction[i], idxj[i])]
    /\ gpc' = "grid"
    /\ UNCHANGED <<initial_aero_grid, initial_str_grid, fraction, idxj, r_aero>>
    /\ UNCHANGED notGrid

InitGrid ==
    /\ ResizeIdle /\ BeamIdle /\ MomentIdle /\ GroupIdle
    /\ WindIdle /\ SplineIdle /\ CurvatureIdle /\ DeflIdle /\ DamageIdle /\ LateIdle
    /\ initial_aero_grid \in Grids(NAero)
    /\ initial_str_grid \in Grids(NStr)
    /\ r_aero \in Grids(NAero)
    /\ fraction = [i \in 1..NStr |-> Zero]
    /\ idxj = [i \in 1..NStr |-> 0]
    /\ r_str = [i \in 1..NStr |-> Zero]
    /\ gpc = "start"

NextGrid ==
    \/ GridSetup_solve_nonlinear
    \/ RGrid_solve_nonlinear

SpecGrid == InitGrid /\ [][NextGrid]_vars

---------------------------------------------------------------------------
(* Exact (unrounded) comparisons used to state the claims *)

\* |x - y| <= k * 2^-MantBits * |y|, in exact arithmetic, for finite x and y
WithinRounding(x, y, k) ==
    /\ IsFinite(x) /\ IsFinite(y)
    /\ Abs(x[1] * y[2] - y[1] * x[2]) * Pow2(MantBits) <= k * Abs(y[1]) * x[2]

\* the exact quotient (r - a)/(b - a) of finite numbers with b # a
ExactFraction(r, a, b) ==
    Rat((r[1] * a[2] - a[1] * r[2]) * b[2], (b[1] * a[2] - a[1] * b[2]) * r[2])

---------------------------------------------------------------------------
(* Claims about GridSetup and RGrid *)

GridSetupRan == gpc \in {"gridsetup", "grid"}

\* C1 (amended): for strictly increasing grids inside [0,1], GridSetup stores
\* for every structural point r the unique index j of aug = [0, r_aero..., 1]
\* with aug[j] < r <= aug[j+1] (the intervals are closed on the right; only
\* r = 0 is assigned to the first interval, j = 0), together with the
\* fraction (r - aug[j])/(aug[j+1] - aug[j]) up to rounding; a structural
\* point that coincides with an aero grid point gets the interval that ends
\* at that point, with f = 1; the fraction is nan when r = 0 = r_aero[0].
C1_BracketClosedRight ==
    GridSetupRan =>
        \A i \in 1..NStr :
            LET aug == r_aug(initial_aero_grid)
                r == initial_str_grid[i]
                j == idxj[i]
            IN  /\ j \in 0..(Len(aug) - 2)
                /\ IF r = Zero THEN j = 0
                   ELSE FLt(At(aug, j), r) /\ FLe(r, At(aug, j + 1))
                /\ IF At(aug, j) = At(aug, j + 1)
                   THEN r = Zero /\ IsNaN(fraction[i])
                   ELSE WithinRounding(fraction[i],
                                       ExactFraction(r, At(aug, j), At(aug, j + 1)), 4)
                /\ (r # Zero /\ r = At(aug, j + 1)) => fraction[i] = One

\* C1 witness: a structural point on an aero grid point, mapped with f = 1
C1_Witness ==
    /\ gpc = "gridsetup"
    /\ \E i \in 1..NStr : \E k \in 1..NAero :
          /\ initial_str_grid[i] = initial_aero_grid[k]
          /\ initial_str_grid[i] # Zero
          /\ idxj[i] = k - 1
          /\ fraction[i] = One

\* C1 as claimed: aug[j] <= r < aug[j+1] (the last interval closed at r = 1),
\* and a structural point on an aero grid point has f = 0
C1_BracketClosedLeft ==
    GridSetupRan =>
        \A i \in 1..NStr :
            LET aug == r_aug(initial_aero_grid)
                r == initial_str_grid[i]
                j == idxj[i]
            IN  /\ \/ FLe(At(aug, j), r) /\ FLt(r, At(aug, j + 1))
                   \/ j = Len(aug) - 2 /\ r = One
                /\ (\E k \in 1..NAero : r = initial_aero_grid[k]) => fraction[i] = Zero

\* C2 (amended): with the aerodynamic grid unchanged, RGrid reproduces every
\* structural grid value up to floating point rounding (a relative error of
\* at most 5 units in the last place), not bit for bit; the one exception is
\* r_str[i] = 0 = r_aero[0], whose fraction is nan and which comes back nan.
C2_RoundTripRounded ==
    (gpc = "grid" /\ r_aero = initial_aero_grid) =>
        \A i \in 1..NStr :
            IF initial_str_grid[i] = Zero /\ initial_aero_grid[1] = Zero
            THEN IsNaN(r_str[i])
            ELSE WithinRounding(r_str[i], initial_str_grid[i], 5)

\* C2 witness: a round trip over the unchanged grid that loses the last bit
C2_Witness ==
    /\ gpc = "grid"
    /\ r_aero = initial_aero_grid
    /\ \E i \in 1..NStr :
          /\ IsFinite(r_str[i])
          /\ r_str[i] # initial_str_grid[i]
          /\ WithinRounding(r_str[i], initial_str_grid[i], 5)

\* C2 as claimed: the round trip reproduces r_str exactly
C2_RoundTripExact ==
    (gpc = "grid" /\ r_aero = initial_aero_grid) => r_str = initial_str_grid

---------------------------------------------------------------------------
(* ResizeCompositeSection *)

\* A CompositeSection (precomp.py) holds, per sector, the arrays n, t, theta
\* and mat over the plies of the sector, and the sector boundaries loc.  The
\* thickness arrays t[j] are numpy arrays, changed in place by `*=`; they
\* live in `heap` and a CompositeSection holds their identities.

\* the plies of each sector of the laminates of the model
PliesPerSector == <<1, 2, 1>>
NSec == Len(PliesPerSector)
ArraysPerStation == 2 * NSec + 1

\* the laminates of station i: the upper surface, the lower surface (the
\* same lay-up as the upper one when v = 0, a thicker one when v = 1) and
\* one shear web
UpperT(i, j, p) == Lit(i + j + p - 2, ThickDen)
LowerT(i, j, p, v) == Lit(i + j + p - 2 + v * j, ThickDen)
WebT(i, p) == Lit(i + 2 * p, ThickDen)

Section(ids, plies) ==
    [loc |-> [j \in 1..(Len(ids) + 1) |-> Lit(j - 1, Len(ids))],
     n |-> [j \in 1..Len(ids) |-> [p \in 1..plies[j] |-> 1]],
     t |-> ids,
     theta |-> [j \in 1..Len(ids) |-> [p \in 1..plies[j] |-> 45 * (p - 1)]],
     mat |-> [j \in 1..Len(ids) |-> [p \in 1..plies[j] |-> (j + p) % 3]]]

UpperIds(i) == [j \in 1..NSec |-> (i - 1) * ArraysPerStation + j]
LowerIds(i) == [j \in 1..NSec |-> (i - 1) * ArraysPerStation + NSec + j]
WebIds(i) == <<i * ArraysPerStation>>

InputHeap(v) ==
    [a \in 1..(NStr * ArraysPerStation) |->
        LET i == ((a - 1) \div ArraysPerStation) + 1
            k == ((a - 1) % ArraysPerStation) + 1
        IN  IF k <= NSec THEN [p \in 1..PliesPerSector[k] |-> UpperT(i, k, p)]
            ELSE IF k <= 2 * NSec
                 THEN [p \in 1..PliesPerSector[k - NSec] |-> LowerT(i, k - NSec, p, v)]
            ELSE [p \in 1..2 |-> WebT(i, p)]]

\* chord_str[i] and chord_str_ref[i]
ChordPairs == {<<Lit(1, 1), Lit(1, 1)>>, <<Lit(3, 1), Lit(2, 1)>>, <<Lit(2, 1), Lit(3, 1)>>}

\* sector_idx_strain_spar[i] and sector_idx_strain_te[i]: the component's
\* default (both zero) and distinct sectors
IdxPairs == {<<0, 0>>, <<1, 2>>, <<1, 0>>, <<2, 1>>}

\* CompositeSection.mycopy(): a deep copy, whose arrays are new objects
mycopy(h, cs) ==
    LET base == Len(h)
    IN  [obj |-> [cs EXCEPT !.t = [j \in 1..Len(cs.t) |-> base + j]],
         heap |-> [a \in 1..(base + Len(cs.t)) |->
                      IF a <= base THEN h[a] ELSE h[cs.t[a - base]]]]

\* for i in range(nstr): upperCSOut.append(upperCSIn[i].mycopy()) ...
CopyAcrossShared(st, i) ==
    [heap |-> st.heap, upper |-> upperCSIn, lower |-> lowerCSIn, webs |-> websCSIn]

RECURSIVE CopyAcross(_, _)
CopyAcross(st, i) ==
    IF i > Len(chord_str_ref) THEN st
    ELSE LET u == mycopy(st.heap, upperCSIn[i])
             l == mycopy(u.heap, lowerCSIn[i])
             w == mycopy(l.heap, websCSIn[i])
         IN  CopyAcross([heap |-> w.heap,
                         upper |-> Append(st.upper, u.obj),
                         lower |-> Append(st.lower, l.obj),
                         webs |-> Append(st.webs, w.obj)], i + 1)

\* t[j] *= c: numpy multiplies the array in place
ScaleInPlace(h, a, c) == [h EXCEPT ![a] = [p \in 1..Len(h[a]) |-> FMul(h[a][p], c)]]

\* for j in range(len(cs.t)): cs.t[j] *= factor
RECURSIVE ScaleSection(_, _, _, _)
ScaleSection(h, cs, c, j) ==
    IF j > Len(cs.t) THEN h
    ELSE ScaleSection(ScaleInPlace(h, cs.t[j], c), cs, c, j + 1)

\* scale all thicknesses with airfoil thickness
RECURSIVE ScaleAllButWebs(_, _)
ScaleAllButWebs(st, i) ==
    IF i > Len(chord_str_ref) THEN st
    ELSE LET factor == FDiv(chord_str[i], chord_str_ref[i])
             h1 == ScaleSection(st.heap, st.upper[i], factor, 1)
             h2 == ScaleSection(h1, st.lower[i], factor, 1)
         IN  ScaleAllButWebs([st EXCEPT !.heap = h2], i + 1)

RECURSIVE ScaleAll(_, _)
ScaleAll(st, i) ==
    IF i > Len(chord_str_ref) THEN st
    ELSE LET factor == FDiv(chord_str[i], chord_str_ref[i])
             h1 == ScaleSection(st.heap, st.upper[i], factor, 1)
             h2 == ScaleSection(h1, st.lower[i], factor, 1)
             h3 == ScaleSection(h2, st.webs[i], factor, 1)
         IN  ScaleAll([st EXCEPT !.heap = h3], i + 1)

\* np.sum(t)
RECURSIVE npsum(_)
npsum(t) == IF Len(t) = 0 THEN Zero
            ELSE FAdd(npsum(SubSeq(t, 1, Len(t) - 1)), t[Len(t)])

\* change spar and trailing edge thickness to specified values, at one station
RetargetOwnSurface(h, upper, lower, idx_spar, idx_te, sparT, teT) ==
    LET h1 == ScaleInPlace(h, At(upper.t, idx_spar),
                           FDiv(sparT, npsum(h[At(upper.t, idx_spar)])))
        h2 == ScaleInPlace(h1, At(lower.t, idx_spar),
                           FDiv(sparT, npsum(h1[At(lower.t, idx_spar)])))
        h3 == ScaleInPlace(h2, At(upper.t, idx_te),
                           FDiv(teT, npsum(h2[At(upper.t, idx_te)])))
    IN  ScaleInPlace(h3, At(lower.t, idx_te),
                     FDiv(teT, npsum(h3[At(lower.t, idx_te)])))

RetargetUnscaledSum(h, upper, lower, idx_spar, idx_te, sparT, teT) ==
    LET tspar == npsum(heap[At(upper.t, idx_spar) - Len(heap)])
        tte == npsum(heap[At(upper.t, idx_te) - Len(heap)])
        h1 == ScaleInPlace(h, At(upper.t, idx_spar), FDiv(sparT, tspar))
        h2 == ScaleInPlace(h1, At(lower.t, idx_spar), FDiv(sparT, tspar))
        h3 == ScaleInPlace(h2, At(upper.t, idx_te), FDiv(teT, tte))
    IN  ScaleInPlace(h3, At(lower.t, idx_te), FDiv(teT, tte))

RetargetStation(h, upper, lower, idx_spar, idx_te, sparT, teT) ==
    LET tspar == npsum(h[At(upper.t, idx_spar)])
        tte == npsum(h[At(upper.t, idx_te)])
        h1 == ScaleInPlace(h, At(upper.t, idx_spar), FDiv(sparT, tspar))
        h2 == ScaleInPlace(h1, At(lower.t, idx_spar), FDiv(sparT, tspar))
        h3 == ScaleInPlace(h2, At(upper.t, idx_te), FDiv(teT, tte))
    IN  ScaleInPlace(h3, At(lower.t, idx_te), FDiv(teT, tte))

RECURSIVE Retarget(_, _)
Retarget(st, i) ==
    IF i > Len(chord_str_ref) THEN st
    ELSE Retarget([st EXCEPT !.heap =
                      RetargetStation(st.heap, st.upper[i], st.lower[i],
                                      sector_idx_strain_spar[i], sector_idx_strain_te[i],
                                      sparT_str[i], teT_str[i])], i + 1)

ResizeCompositeSection_solve_nonlinear ==
    /\ rpc = "start"
    /\ LET copied == CopyAcross([heap |-> heap, upper |-> <<>>, lower |-> <<>>,
                                 webs |-> <<>>], 1)
           scaled == ScaleAll(copied, 1)
           out == Retarget(scaled, 1)
       IN  /\ heap' = out.heap
           /\ upperCSOut' = out.upper
           /\ lowerCSOut' = out.lower
           /\ websCSOut' = out.webs
    /\ rpc' = "done"
    /\ UNCHANGED resizeIn
    /\ UNCHANGED notResize

InitResize ==
    /\ GridIdle /\ BeamIdle /\ MomentIdle /\ GroupIdle
    /\ WindIdle /\ SplineIdle /\ CurvatureIdle /\ DeflIdle /\ DamageIdle /\ LateIdle
    /\ \E v \in {0, 1} : heap = InputHeap(v)
    /\ upperCSIn = [i \in 1..NStr |-> Section(UpperIds(i), PliesPerSector)]
    /\ lowerCSIn = [i \in 1..NStr |-> Section(LowerIds(i), PliesPerSector)]
    /\ websCSIn = [i \in 1..NStr |-> Section(WebIds(i), <<2>>)]
    /\ \E c \in [1..NStr -> ChordPairs] :
          /\ chord_str = [i \in 1..NStr |-> c[i][1]]
          /\ chord_str_ref = [i \in 1..NStr |-> c[i][2]]
    /\ \E idx \in [1..NStr -> IdxPairs] :
          /\ sector_idx_strain_spar = [i \in 1..NStr |-> idx[i][1]]
          /\ sector_idx_strain_te = [i \in 1..NStr |-> idx[i][2]]
    /\ \E k \in 1..2 :
          /\ sparT_str = [i \in 1..NStr |-> Lit(k + i, TargetDen)]
          /\ teT_str = [i \in 1..NStr |-> Lit(2 * k + i + 1, TargetDen)]
    /\ upperCSOut = <<>> /\ lowerCSOut = <<>> /\ websCSOut = <<>>
    /\ rpc = "start"

NextResize == ResizeCompositeSection_solve_nonlinear

SpecResize == InitResize /\ [][NextResize]_vars

---------------------------------------------------------------------------
(* Claims on ResizeCompositeSection *)

\* exact rational arithmetic, to state what a rounded result is close to
RMul(x, y) == Rat(x[1] * y[1], x[2] * y[2])
RDiv(x, y) == Rat(x[1] * y[2], x[2] * y[1])
RECURSIVE ExactSum(_)
ExactSum(t) == IF Len(t) = 0 THEN Zero
               ELSE LET r == ExactSum(SubSeq(t, 1, Len(t) - 1))
                        x == t[Len(t)]
                    IN  Rat(r[1] * x[2] + x[1] * r[2], r[2] * x[2])

ResizeRan == rpc = "done"
Stations == 1..NStr
SparOf(cs, i) == heap[At(cs[i].t, sector_idx_strain_spar[i])]
TeOf(cs, i) == heap[At(cs[i].t, sector_idx_strain_te[i])]
DistinctIdx(i) == sector_idx_strain_spar[i] # sector_idx_strain_te[i]
SameLayup(i) == /\ ExactSum(SparOf(lowerCSIn, i)) = ExactSum(SparOf(upperCSIn, i))
                /\ ExactSum(TeOf(lowerCSIn, i)) = ExactSum(TeOf(upperCSIn, i))
\* the thickness a ply of the input gets when its sector is brought to target T,
\* the sector total being that of the array `ref`
Retargeted(x, T, ref) == RDiv(RMul(x, T), ExactSum(ref))

\* C3 (amended): after the resize, at every station whose spar-cap and
\* trailing-edge sector indices differ, the ply thicknesses of the upper
\* spar-cap sector sum to sparT_str[i], up to the rounding of the ply-wise
\* products.  Where the two indices are the same sector, that sector is
\* rescaled twice by the total taken before either rescaling, and its plies
\* sum to sparT_str[i]*teT_str[i] over the chord-scaled input total instead.
C3_UpperSparSumDistinctIdx ==
    ResizeRan =>
        \A i \in Stations :
            IF DistinctIdx(i)
            THEN WithinRounding(ExactSum(SparOf(upperCSOut, i)), sparT_str[i],
                                2 * Len(SparOf(upperCSOut, i)) + 2)
            ELSE WithinRounding(ExactSum(SparOf(upperCSOut, i)),
                                RDiv(RMul(sparT_str[i], teT_str[i]),
                                     RMul(RDiv(chord_str[i], chord_str_ref[i]),
                                          ExactSum(SparOf(upperCSIn, i)))),
                                4 * Len(SparOf(upperCSOut, i)) + 4)

\* C3 witness: a resize has run with distinct indices at a station, a chord
\* factor other than one, and the sector total has changed to its target.
C3_Witness ==
    /\ ResizeRan
    /\ \E i \in Stations :
          /\ DistinctIdx(i)
          /\ chord_str[i] # chord_str_ref[i]
          /\ Len(SparOf(upperCSOut, i)) > 1
          /\ ExactSum(SparOf(upperCSIn, i)) # sparT_str[i]
          /\ WithinRounding(ExactSum(SparOf(upperCSOut, i)), sparT_str[i],
                            2 * Len(SparOf(upperCSOut, i)) + 2)

\* C3 as stated: at every station the upper spar-cap plies sum to the
\* target, whatever the sector indices are (even up to rounding).
C3_UpperSparSumAlways ==
    ResizeRan =>
        \A i \in Stations :
            WithinRounding(ExactSum(SparOf(upperCSOut, i)), sparT_str[i],
                           2 * Len(SparOf(upperCSOut, i)) + 2)

\* C4 (amended): the retargeting divides by the totals of the UPPER sectors
\* only.  At a station with distinct spar-cap and trailing-edge indices the
\* upper trailing-edge sector sums to teT_str[i], and the lower spar-cap and
\* trailing-edge sectors sum to the target times the ratio of the lower to
\* the upper input sector total (up to rounding): they meet the target when
\* the lower and upper input sector totals are equal.
C4_LowerFollowsUpperTotals ==
    ResizeRan =>
        \A i \in Stations :
            DistinctIdx(i) =>
                /\ WithinRounding(ExactSum(TeOf(upperCSOut, i)), teT_str[i],
                                  2 * Len(TeOf(upperCSOut, i)) + 2)
                /\ WithinRounding(ExactSum(SparOf(lowerCSOut, i)),
                                  RDiv(RMul(sparT_str[i], ExactSum(SparOf(lowerCSIn, i))),
                                       ExactSum(SparOf(upperCSIn, i))),
                                  2 * Len(SparOf(upperCSOut, i)) + 4)
                /\ WithinRounding(ExactSum(TeOf(lowerCSOut, i)),
                                  RDiv(RMul(teT_str[i], ExactSum(TeOf(lowerCSIn, i))),
                                       ExactSum(TeOf(upperCSIn, i))),
                                  2 * Len(TeOf(upperCSOut, i)) + 4)
                /\ SameLayup(i) =>
                      /\ WithinRounding(ExactSum(SparOf(lowerCSOut, i)), sparT_str[i],
                                        2 * Len(SparOf(upperCSOut, i)) + 4)
                      /\ WithinRounding(ExactSum(TeOf(lowerCSOut, i)), teT_str[i],
                                        2 * Len(TeOf(upperCSOut, i)) + 4)

\* C4 witness: a resize has run at a station with distinct indices whose
\* lower spar-cap sector is thicker than the upper one, and the lower
\* sector total has missed the target.
C4_Witness ==
    /\ ResizeRan
    /\ \E i \in Stations :
          /\ DistinctIdx(i)
          /\ ExactSum(SparOf(lowerCSIn, i)) # ExactSum(SparOf(upperCSIn, i))
          /\ ~WithinRounding(ExactSum(SparOf(lowerCSOut, i)), sparT_str[i],
                             2 * Len(SparOf(upperCSOut, i)) + 4)
          /\ WithinRounding(ExactSum(TeOf(upperCSOut, i)), teT_str[i],
                            2 * Len(TeOf(upperCSOut, i)) + 2)

\* C4 as stated: with distinct indices, the lower spar-cap sector and both
\* trailing-edge sectors sum to their targets whatever the input upper and
\* lower laminates are (even up to rounding).
C4_LowerMeetsTarget ==
    ResizeRan =>
        \A i \in Stations :
            DistinctIdx(i) =>
                /\ WithinRounding(ExactSum(SparOf(lowerCSOut, i)), sparT_str[i],
                                  2 * Len(SparOf(upperCSOut, i)) + 4)
                /\ WithinRounding(ExactSum(TeOf(upperCSOut, i)), teT_str[i],
                                  2 * Len(TeOf(upperCSOut, i)) + 4)
                /\ WithinRounding(ExactSum(TeOf(lowerCSOut, i)), teT_str[i],
                                  2 * Len(TeOf(upperCSOut, i)) + 4)

\* every ply of sector j of the output section is the input ply times the
\* rounded chord factor
ScaledByFactor(csOut, csIn, i, j) ==
    \A p \in 1..Len(heap[csIn[i].t[j]]) :
        heap[csOut[i].t[j]][p] =
            FMul(heap[csIn[i].t[j]][p], FDiv(chord_str[i], chord_str_ref[i]))

\* every ply of the sector with index idx is what the target alone gives:
\* the input ply times T over the input total of the upper sector
FixedByTarget(csOut, csIn, i, idx, T) ==
    \A p \in 1..Len(heap[At(csIn[i].t, idx)]) :
        WithinRounding(heap[At(csOut[i].t, idx)][p],
                       Retargeted(heap[At(csIn[i].t, idx)][p], T,
                                  heap[At(upperCSIn[i].t, idx)]),
                       2 * Len(heap[At(upperCSIn[i].t, idx)]) + 4)

OtherSectorsScaled(i) ==
    /\ \A j \in 1..Len(upperCSIn[i].t) :
          (j - 1 # sector_idx_strain_spar[i] /\ j - 1 # sector_idx_strain_te[i]) =>
              /\ ScaledByFactor(upperCSOut, upperCSIn, i, j)
              /\ ScaledByFactor(lowerCSOut, lowerCSIn, i, j)
    /\ \A j \in 1..Len(websCSIn[i].t) : ScaledByFactor(websCSOut, websCSIn, i, j)

SparAndTeFixedByTargets(i) ==
    /\ FixedByTarget(upperCSOut, upperCSIn, i, sector_idx_strain_spar[i], sparT_str[i])
    /\ FixedByTarget(lowerCSOut, lowerCSIn, i, sector_idx_strain_spar[i], sparT_str[i])
    /\ FixedByTarget(upperCSOut, upperCSIn, i, sector_idx_strain_te[i], teT_str[i])
    /\ FixedByTarget(lowerCSOut, lowerCSIn, i, sector_idx_strain_te[i], teT_str[i])

\* C5 (amended): after the resize every ply of every shear-web sector, and
\* of every upper and lower sector other than the spar-cap and trailing-edge
\* ones, is the input ply times chord_str[i]/chord_str_ref[i]; and at a
\* station whose spar-cap and trailing-edge indices differ, the plies of
\* those two sectors carry no effect of the chord factor: they are the
\* input plies times target over input upper sector total, up to rounding.
C5_ScaleThenRetargetDistinctIdx ==
    ResizeRan =>
        \A i \in Stations :
            /\ OtherSectorsScaled(i)
            /\ DistinctIdx(i) => SparAndTeFixedByTargets(i)

\* C5 witness: a resize has run at a station with distinct indices and a
\* chord factor other than one; a third sector has been scaled and the
\* spar-cap and trailing-edge sectors are fixed by the targets.
C5_Witness ==
    /\ ResizeRan
    /\ \E i \in Stations :
          /\ DistinctIdx(i)
          /\ chord_str[i] # chord_str_ref[i]
          /\ \E j \in 1..Len(upperCSIn[i].t) :
                /\ j - 1 # sector_idx_strain_spar[i]
                /\ j - 1 # sector_idx_strain_te[i]
                /\ heap[upperCSOut[i].t[j]] # heap[upperCSIn[i].t[j]]
                /\ ScaledByFactor(upperCSOut, upperCSIn, i, j)
          /\ heap[websCSOut[i].t[1]] # heap[websCSIn[i].t[1]]
          /\ SparAndTeFixedByTargets(i)

\* C5 as stated: the spar-cap and trailing-edge sectors keep no effect of
\* the chord factor at any station, whatever the sector indices are.
C5_ScaleThenRetargetAlways ==
    ResizeRan =>
        \A i \in Stations :
            /\ OtherSectorsScaled(i)
            /\ SparAndTeFixedByTargets(i)

\* the sectors, ply counts, ply order (materials and orientations) and
\* sector boundaries of section b are those of section a
SameStructure(h, a, b) ==
    /\ a.loc = b.loc /\ a.n = b.n /\ a.theta = b.theta /\ a.mat = b.mat
    /\ Len(a.t) = Len(b.t)
    /\ \A j \in 1..Len(a.t) : Len(h[a.t[j]]) = Len(h[b.t[j]])

ArraysOf(css) == {css[i].t[j] : i \in 1..Len(css), j \in 1..Len(css[1].t)}

---------------------------------------------------------------------------
(* RotorWithpBEAM.principalCS *)

\* The angle alpha = 0.5*np.arctan2(y, x) is not a rational number: the
\* model keeps what the code uses of it, np.tan(alpha), np.cos(alpha) and
\* np.sin(alpha), computed from y and x by the half-angle identities
\* tan(alpha) = y/(x + hypot(x, y)) = (hypot(x, y) - x)/y in float
\* arithmetic.  alpha is in (-pi/2, pi/2], so cos(alpha) >= 0.

\* np.tan, np.cos, np.sin of the float nearest to pi/2: large, small and one
TanHalfPi == <<Pow2(MantBits), 1>>
CosHalfPi == <<1, Pow2(MantBits)>>

\* np.tan(0.5*np.arctan2(y, x))
TanHalfAtan2(y, x) ==
    IF IsNaN(y) \/ IsNaN(x) THEN NaN
    ELSE IF y[1] = 0 THEN (IF x[1] >= 0 THEN Zero ELSE TanHalfPi)
    ELSE IF IsInf(x) THEN (IF IsInf(y) THEN NaN
                           ELSE IF x[1] > 0 THEN Zero ELSE <<Sign(y[1]) * Pow2(MantBits), 1>>)
    ELSE IF IsInf(y) THEN <<Sign(y[1]), 1>>
    ELSE LET h == FSqrt(FAdd(FMul(x, x), FMul(y, y)))
         IN  IF x[1] >= 0 THEN FDiv(y, FAdd(x, h)) ELSE FDiv(FSub(h, x), y)

\* np.cos(alpha) and np.sin(alpha) from t = np.tan(alpha)
CosFromTan(t) ==
    IF IsNaN(t) THEN NaN
    ELSE IF Abs(t[1]) >= Pow2(MantBits) * t[2] THEN CosHalfPi
    ELSE FDiv(One, FSqrt(FAdd(One, FMul(t, t))))
SinFromTan(t) ==
    IF IsNaN(t) THEN NaN
    ELSE IF Abs(t[1]) >= Pow2(MantBits) * t[2] THEN <<Sign(t[1]), 1>>
    ELSE FDiv(t, FSqrt(FAdd(One, FMul(t, t))))

\* rename (with swap of x, y for profile c.s.): the four assignments of
\* principalCS, in the order of the code.  The second reads the EIxx the
\* first has just assigned, and the fourth the x_ec_str of the third.
Rename(EIyy_in, EIxx_in, y_ec_str_in, x_ec_str_in) ==
    LET EIxx_1 == EIyy_in
        EIyy_2 == EIxx_1
        x_ec_str_3 == y_ec_str_in
        y_ec_str_4 == x_ec_str_3
    IN  [EIxx |-> EIxx_1, EIyy |-> EIyy_2, x_ec_str |-> x_ec_str_3, y_ec_str |-> y_ec_str_4]

\* translate to elastic center
Translate(cs, EA_in, EIxy_in) ==
    [EIxx |-> FSub(cs.EIxx, FMul(FMul(cs.y_ec_str, cs.y_ec_str), EA_in)),
     EIyy |-> FSub(cs.EIyy, FMul(FMul(cs.x_ec_str, cs.x_ec_str), EA_in)),
     EIxy |-> FSub(EIxy_in, FMul(FMul(cs.x_ec_str, cs.y_ec_str), EA_in))]

\* principalCS(self, EIyy, EIxx, y_ec_str, x_ec_str, EA, EIxy)
principalCS(EIyy_in, EIxx_in, y_ec_str_in, x_ec_str_in, EA_in, EIxy_in) ==
    LET tr == Translate(Rename(EIyy_in, EIxx_in, y_ec_str_in, x_ec_str_in), EA_in, EIxy_in)
        tan_alpha == TanHalfAtan2(FMul(<<2, 1>>, tr.EIxy), FSub(tr.EIyy, tr.EIxx))
    IN  [EI11 |-> FSub(tr.EIxx, FMul(tr.EIxy, tan_alpha)),
         EI22 |-> FAdd(tr.EIyy, FMul(tr.EIxy, tan_alpha)),
         EA |-> EA_in,
         ca |-> CosFromTan(tan_alpha),
         sa |-> SinFromTan(tan_alpha)]

\* the call of principalCS in RotorWithpBEAM.solve_nonlinear
RotorWithpBEAM_principalCS ==
    /\ ppc = "start"
    /\ LET ret == principalCS(beam_EIyy, beam_EIxx, beam_y_ec_str, beam_x_ec_str,
                              beam_EA, beam_EIxy)
       IN  /\ EI11' = ret.EI11 /\ EI22' = ret.EI22 /\ EA' = ret.EA
           /\ ca' = ret.ca /\ sa' = ret.sa
    /\ ppc' = "done"
    /\ UNCHANGED beamIn
    /\ UNCHANGED notBeam

\* stiffnesses, offsets of the elastic centre and axial stiffness of a section
EIValues == {<<2, 1>>, <<3, 1>>, <<4, 1>>}
EIxyValues == {<<-1, 2>>, <<0, 1>>, <<1, 2>>}
EcValues == {<<-1, 2>>, <<0, 1>>, <<1, 2>>}
EAValues == {<<1, 1>>, <<2, 1>>}

InitBeam ==
    /\ GridIdle /\ ResizeIdle /\ MomentIdle /\ GroupIdle
    /\ WindIdle /\ SplineIdle /\ CurvatureIdle /\ DeflIdle /\ DamageIdle /\ LateIdle
    /\ beam_EIxx \in EIValues /\ beam_EIyy \in EIValues /\ beam_EIxy \in EIxyValues
    /\ beam_x_ec_str \in EcValues /\ beam_y_ec_str \in EcValues /\ beam_EA \in EAValues
    /\ EI11 = Zero /\ EI22 = Zero /\ EA = Zero /\ ca = Zero /\ sa = Zero
    /\ ppc = "start"

NextBeam == RotorWithpBEAM_principalCS

SpecBeam == InitBeam /\ [][NextBeam]_vars

---------------------------------------------------------------------------
(* Claim on principalCS *)

\* C7 as stated: the profile-frame EIxx of principalCS is the beam EIyy and
\* its profile-frame EIyy is the beam EIxx, likewise x_ec_str and y_ec_str
\* are interchanged; so the values returned change with beam:EIxx and with
\* beam:x_ec_str: for every section some other beam:EIxx, and some other
\* beam:x_ec_str, would have given another result.
C7_SwapsXandY ==
    ppc = "done" =>
        LET cs == Rename(beam_EIyy, beam_EIxx, beam_y_ec_str, beam_x_ec_str)
            ret == [EI11 |-> EI11, EI22 |-> EI22, EA |-> EA, ca |-> ca, sa |-> sa]
        IN  /\ cs.EIxx = beam_EIyy /\ cs.EIyy = beam_EIxx
            /\ cs.x_ec_str = beam_y_ec_str /\ cs.y_ec_str = beam_x_ec_str
            /\ \E e \in EIValues :
                  principalCS(beam_EIyy, e, beam_y_ec_str, beam_x_ec_str,
                              beam_EA, beam_EIxy) # ret
            /\ \E x \in EcValues :
                  principalCS(beam_EIyy, beam_EIxx, beam_y_ec_str, x,
                              beam_EA, beam_EIxy) # ret

\* C7 witness: principalCS has returned for a section with beam:EIxx #
\* beam:EIyy and beam:x_ec_str # beam:y_ec_str; its profile-frame EIxx and
\* EIyy are both the beam EIyy, both offsets are beam:y_ec_str, and every
\* other beam:EIxx and beam:x_ec_str would have given the same result.
C7_Witness ==
    /\ ppc = "done"
    /\ beam_EIxx # beam_EIyy /\ beam_x_ec_str # beam_y_ec_str
    /\ LET cs == Rename(beam_EIyy, beam_EIxx, beam_y_ec_str, beam_x_ec_str)
       IN  /\ cs.EIxx = beam_EIyy /\ cs.EIyy = beam_EIyy
           /\ cs.x_ec_str = beam_y_ec_str /\ cs.y_ec_str = beam_y_ec_str
    /\ \A e \in EIValues : \A x \in EcValues :
          principalCS(beam_EIyy, e, beam_y_ec_str, x, beam_EA, beam_EIxy)
              = [EI11 |-> EI11, EI22 |-> EI22, EA |-> EA, ca |-> ca, sa |-> sa]

---------------------------------------------------------------------------
(* RootMoment *)

\* commonse.utilities.interp_with_deriv(x, xp, yp), the value at one point x:
\* linear interpolation in the table (xp, yp), held constant outside of it
RECURSIVE interp_with_deriv(_, _, _, _)
interp_with_deriv(x, xp, yp, j) ==
    IF FLe(x, xp[1]) \/ IsNaN(x) THEN yp[1]
    ELSE IF j >= Len(xp) THEN yp[Len(xp)]
    ELSE IF FLe(x, xp[j + 1])
         THEN FAdd(yp[j], FMul(FSub(x, xp[j]),
                               FDiv(FSub(yp[j + 1], yp[j]), FSub(xp[j + 1], xp[j]))))
    ELSE interp_with_deriv(x, xp, yp, j + 1)

InterpSwapped(xs, xp, yp) == [i \in 1..Len(xs) |-> interp_with_deriv(xs[i], yp, xp, 1)]

\* the interpolation onto every point of xs
Interp(xs, xp, yp) == [i \in 1..Len(xs) |-> interp_with_deriv(xs[i], xp, yp, 1)]

\* np.trapz(y, x): the sum of diff(x) * (y[1:] + y[:-1]) / 2.0
RECURSIVE trapz(_, _, _)
trapz(y, x, k) ==
    LET term == FDiv(FMul(FSub(x[k + 1], x[k]), FAdd(y[k + 1], y[k])), <<2, 1>>)
    IN  IF k = 1 THEN term ELSE FAdd(trapz(y, x, k - 1), term)

\* np.cos and np.sin of np.radians(a) for the cone angles of the model
ConeAngles == {0, 37, -37}
CosDeg(a) == IF a = 0 THEN One ELSE Lit(4, 5)
SinDeg(a) == IF a = 0 THEN Zero ELSE Lit(3 * Sign(a), 5)

\* DirectionVector(x, y, z).bladeToAzimuth(cone): the rotation about the y
\* axis by the cone angle (ConeAngles holds both directions of rotation)
bladeToAzimuth(P, cone) ==
    [x |-> [i \in 1..Len(cone) |->
               FSub(FMul(P.x[i], CosDeg(cone[i])), FMul(P.z[i], SinDeg(cone[i])))],
     y |-> P.y,
     z |-> [i \in 1..Len(cone) |->
               FAdd(FMul(P.z[i], CosDeg(cone[i])), FMul(P.x[i], SinDeg(cone[i])))]]

\* DirectionVector.cross
cross(a, b) ==
    [x |-> [i \in 1..Len(a.x) |-> FSub(FMul(a.y[i], b.z[i]), FMul(a.z[i], b.y[i]))],
     y |-> [i \in 1..Len(a.x) |-> FSub(FMul(a.z[i], b.x[i]), FMul(a.x[i], b.z[i]))],
     z |-> [i \in 1..Len(a.x) |-> FSub(FMul(a.x[i], b.y[i]), FMul(a.y[i], b.x[i]))]]

RootMoment_solve_nonlinear ==
    /\ mpc = "start"
    /\ LET Px == Interp(rm_r_str, aeroLoads_r, aeroLoads_Px)
           Py == Interp(rm_r_str, aeroLoads_r, aeroLoads_Py)
           Pz == Interp(rm_r_str, aeroLoads_r, aeroLoads_Pz)
           Fx == trapz(Px, rm_s, Len(rm_s) - 1)
           Fy == trapz(Py, rm_s, Len(rm_s) - 1)
           Fz == trapz(Pz, rm_s, Len(rm_s) - 1)
           P == bladeToAzimuth([x |-> Px, y |-> Py, z |-> Pz], totalCone)
           az == [x |-> x_az, y |-> y_az, z |-> z_az]
           Mp == cross(az, P)
           Mx == trapz(Mp.x, rm_s, Len(rm_s) - 1)
           My == trapz(Mp.y, rm_s, Len(rm_s) - 1)
           Mz == trapz(Mp.z, rm_s, Len(rm_s) - 1)
       IN  /\ root_bending_moment' =
                  FSqrt(FAdd(FAdd(FMul(Mx, Mx), FMul(My, My)), FMul(Mz, Mz)))
           /\ Mxyz' = <<Mx, My, Mz>>
           /\ Fxyz' = <<Fx, Fy, Fz>>
    /\ mpc' = "done"
    /\ UNCHANGED momentIn
    /\ UNCHANGED notMoment

\* the distributed load at aerodynamic station k, for a load level v
LoadLevels == {0, 1, -2}
LoadAt(v, k) == <<v * k, 1>>
\* the azimuth-frame shape of the blade: straight, precurved, precurved and swept
BladeShapes == {<<0, 0>>, <<1, 0>>, <<1, -1>>}
BladeLengths == {<<4, 1>>, <<8, 1>>}
\* the structural grid of RootMoment: increasing quarters of the span
SpanValues == {Lit(k, 4) : k \in 0..4}
SpanGrids(n) == {g \in [1..n -> SpanValues] : IsStrictlyIncreasing(g)}

InitMoment ==
    /\ GridIdle /\ ResizeIdle /\ BeamIdle /\ GroupIdle
    /\ WindIdle /\ SplineIdle /\ CurvatureIdle /\ DeflIdle /\ DamageIdle /\ LateIdle
    /\ aeroLoads_r = [k \in 1..NAero |-> Lit(k, NAero + 1)]
    /\ \E v \in LoadLevels : aeroLoads_Px = [k \in 1..NAero |-> LoadAt(v, k)]
    /\ \E v \in LoadLevels : aeroLoads_Py = [k \in 1..NAero |-> LoadAt(v, k)]
    /\ \E v \in LoadLevels : aeroLoads_Pz = [k \in 1..NAero |-> LoadAt(v, k)]
    /\ rm_r_str \in SpanGrids(NStr)
    /\ \E a \in ConeAngles : totalCone = [i \in 1..NStr |-> a]
    /\ \E L \in BladeLengths :
          /\ rm_s = [i \in 1..NStr |-> FMul(rm_r_str[i], L)]
          /\ z_az = [i \in 1..NStr |-> FMul(rm_r_str[i], L)]
    /\ \E sh \in BladeShapes :
          /\ x_az = [i \in 1..NStr |-> Lit(sh[1] * i, 1)]
          /\ y_az = [i \in 1..NStr |-> Lit(sh[2] * i, 1)]
    /\ root_bending_moment = Zero
    /\ Mxyz = <<Zero, Zero, Zero>>
    /\ Fxyz = <<Zero, Zero, Zero>>
    /\ mpc = "start"

NextMoment == RootMoment_solve_nonlinear

SpecMoment == InitMoment /\ [][NextMoment]_vars

---------------------------------------------------------------------------
(* Claim on RootMoment *)

AllLoadsZero ==
    \A k \in 1..Len(aeroLoads_r) :
        aeroLoads_Px[k] = Zero /\ aeroLoads_Py[k] = Zero /\ aeroLoads_Pz[k] = Zero

\* C8: when Px, Py and Pz are zero at every aerodynamic station, RootMoment
\* returns a root bending moment of exactly zero (and zero moment and force
\* components), whatever the (finite) blade geometry and grids are.
C8_ZeroLoadsZeroMoment ==
    (mpc = "done" /\ AllLoadsZero) =>
        /\ root_bending_moment = Zero
        /\ Mxyz = <<Zero, Zero, Zero>>
        /\ Fxyz = <<Zero, Zero, Zero>>

\* C8 witness: RootMoment has run with zero loads on a coned, precurved and
\* swept blade and has returned a zero moment.
C8_Witness ==
    /\ mpc = "done"
    /\ AllLoadsZero
    /\ totalCone[1] # 0
    /\ \E i \in 1..Len(x_az) : x_az[i] # Zero /\ y_az[i] # Zero /\ z_az[i] # Zero
    /\ root_bending_moment = Zero

---------------------------------------------------------------------------
(* RotorSE: the components of the group and their connections *)

\* The IndepVarComps of rotor.py:2323-2409 have no inputs; they are the one
\* node "indeps".  The four IndepVarComps of the drivetrain load cases
\* (rotor.py:2963-2966) are nodes of their own.

\* the components in the order of the add calls
AddOrder ==
    <<"indeps", "turbineclass", "gridsetup", "grid", "spline0", "spline", "geom",
      "setup", "analysis", "dt", "powercurve", "wind", "cdf", "aep", "outputs_aero",
      "curvature", "resize", "gust", "setuppc", "aero_rated", "aero_extrm",
      "aero_extrm_forces", "aero_defl_powercurve", "beam", "loads_defl",
      "loads_pc_defl", "loads_strain", "damage", "struc", "curvefem", "tip",
      "root_moment", "mass", "extreme", "blade_defl", "aero_0", "aero_120", "aero_240",
      "root_moment_0", "root_moment_120", "root_moment_240", "output_struc",
      "pitch_load89", "azimuth_load0", "azimuth_load120", "azimuth_load240", "obj_cmp">>

Components == {AddOrder[k] : k \in 1..Len(AddOrder)}

\* the connect calls of rotor.py:2428-2438, as <<supplier, consumer>>
GridConnections ==
    {<<"indeps", "turbineclass">>, <<"indeps", "gridsetup">>, <<"indeps", "grid">>,
     <<"gridsetup", "grid">>}

\* the connect calls of rotor.py:2440-2453, as <<supplier, consumer>>
Spline0Connections ==
    {<<"indeps", "spline0">>, <<"grid", "spline0">>}

SplineConnectionsFedBack ==
    {<<"indeps", "spline">>, <<"grid", "spline">>, <<"blade_defl", "spline">>}

\* the connect calls of rotor.py:2455-2469, as <<supplier, consumer>>
SplineConnections ==
    {<<"indeps", "spline">>, <<"grid", "spline">>}

\* the connect calls of rotor.py:2471-2576, as <<supplier, consumer>>
AeroConnections ==
    {<<"spline", "geom">>, <<"indeps", "geom">>, <<"indeps", "setup">>,
     <<"geom", "setup">>, <<"spline", "analysis">>, <<"indeps", "analysis">>,
     <<"setup", "analysis">>, <<"analysis", "dt">>, <<"indeps", "dt">>,
     <<"indeps", "powercurve">>, <<"setup", "powercurve">>, <<"dt", "powercurve">>,
     <<"analysis", "powercurve">>, <<"geom", "powercurve">>,
     <<"turbineclass", "wind">>, <<"indeps", "wind">>, <<"powercurve", "cdf">>,
     <<"wind", "cdf">>, <<"cdf", "aep">>, <<"powercurve", "aep">>, <<"indeps", "aep">>,
     <<"powercurve", "outputs_aero">>, <<"aep", "outputs_aero">>,
     <<"spline", "outputs_aero">>, <<"geom", "outputs_aero">>}

\* the connect calls of rotor.py:2609-2938, as <<supplier, consumer>>
StructureConnections ==
    {<<"spline", "curvature">>, <<"indeps", "curvature">>, <<"indeps", "resize">>,
     <<"spline", "resize">>, <<"indeps", "gust">>, <<"turbineclass", "gust">>,
     <<"powercurve", "gust">>, <<"indeps", "setuppc">>, <<"powercurve", "setuppc">>,
     <<"geom", "setuppc">>, <<"spline", "aero_rated">>, <<"indeps", "aero_rated">>,
     <<"gust", "aero_rated">>, <<"powercurve", "aero_rated">>,
     <<"spline", "aero_extrm">>, <<"indeps", "aero_extrm">>,
     <<"turbineclass", "aero_extrm">>, <<"spline", "aero_extrm_forces">>,
     <<"indeps", "aero_extrm_forces">>, <<"turbineclass", "aero_extrm_forces">>,
     <<"spline", "aero_defl_powercurve">>, <<"indeps", "aero_defl_powercurve">>,
     <<"setuppc", "aero_defl_powercurve">>, <<"spline", "beam">>, <<"indeps", "beam">>,
     <<"resize", "beam">>, <<"aero_rated", "loads_defl">>, <<"beam", "loads_defl">>,
     <<"spline", "loads_defl">>, <<"indeps", "loads_defl">>,
     <<"curvature", "loads_defl">>, <<"aero_defl_powercurve", "loads_pc_defl">>,
     <<"beam", "loads_pc_defl">>, <<"spline", "loads_pc_defl">>,
     <<"indeps", "loads_pc_defl">>, <<"curvature", "loads_pc_defl">>,
     <<"aero_extrm", "loads_strain">>, <<"beam", "loads_strain">>,
     <<"spline", "loads_strain">>, <<"indeps", "loads_strain">>,
     <<"curvature", "loads_strain">>, <<"indeps", "damage">>, <<"spline", "damage">>,
     <<"beam", "damage">>, <<"beam", "struc">>, <<"indeps", "struc">>,
     <<"loads_defl", "struc">>, <<"loads_pc_defl", "struc">>,
     <<"loads_strain", "struc">>, <<"damage", "struc">>, <<"powercurve", "curvefem">>,
     <<"beam", "curvefem">>, <<"spline", "curvefem">>, <<"indeps", "curvefem">>,
     <<"struc", "tip">>, <<"spline", "tip">>, <<"aero_rated", "tip">>,
     <<"indeps", "tip">>, <<"curvature", "tip">>, <<"spline", "root_moment">>,
     <<"aero_rated", "root_moment">>, <<"curvature", "root_moment">>,
     <<"struc", "mass">>, <<"indeps", "mass">>, <<"aero_extrm_forces", "extreme">>,
     <<"indeps", "extreme">>, <<"struc", "blade_defl">>,
     <<"aero_defl_powercurve", "blade_defl">>, <<"spline0", "blade_defl">>,
     <<"indeps", "blade_defl">>, <<"turbineclass", "outputs_aero">>,
     <<"extreme", "outputs_aero">>, <<"struc", "output_struc">>,
     <<"mass", "output_struc">>, <<"curvefem", "output_struc">>,
     <<"tip", "output_struc">>, <<"root_moment", "output_struc">>,
     <<"beam", "output_struc">>, <<"blade_defl", "output_struc">>,
     <<"spline", "outputs_aero">>}

\* the connect calls of rotor.py:2940-2994, as <<supplier, consumer>>
LoadCaseConnections ==
    {<<"spline", "aero_0">>, <<"spline", "aero_120">>, <<"spline", "aero_240">>,
     <<"indeps", "aero_0">>, <<"indeps", "aero_120">>, <<"indeps", "aero_240">>,
     <<"gust", "aero_0">>, <<"gust", "aero_120">>, <<"gust", "aero_240">>,
     <<"powercurve", "aero_0">>, <<"powercurve", "aero_120">>,
     <<"powercurve", "aero_240">>, <<"pitch_load89", "aero_0">>,
     <<"pitch_load89", "aero_120">>, <<"pitch_load89", "aero_240">>,
     <<"azimuth_load0", "aero_0">>, <<"azimuth_load120", "aero_120">>,
     <<"azimuth_load240", "aero_240">>, <<"spline", "root_moment_0">>,
     <<"spline", "root_moment_120">>, <<"spline", "root_moment_240">>,
     <<"aero_rated", "root_moment_0">>, <<"aero_rated", "root_moment_120">>,
     <<"aero_rated", "root_moment_240">>, <<"curvature", "root_moment_0">>,
     <<"curvature", "root_moment_120">>, <<"curvature", "root_moment_240">>,
     <<"root_moment_0", "output_struc">>, <<"root_moment_120", "output_struc">>,
     <<"root_moment_240", "output_struc">>, <<"curvature", "output_struc">>,
     <<"pitch_load89", "output_struc">>}

\* outputs_aero and obj_cmp are added with promotes=['*']: the input AEP of
\* obj_cmp is the output AEP of outputs_aero
Promotions == {<<"outputs_aero", "obj_cmp">>}

Connections ==
    GridConnections \cup Spline0Connections \cup SplineConnections \cup AeroConnections
        \cup StructureConnections \cup LoadCaseConnections \cup Promotions

Suppliers(c) == {p[1] : p \in {q \in Connections : q[2] = c}}
Consumers(c) == {p[2] : p \in {q \in Connections : q[1] = c}}

Executed == {order[k] : k \in 1..Len(order)}

\* The order of execution is the framework's: a topological order of the
\* connection graph, fixed at setup.  The model runs, of the components
\* whose suppliers have all run, the one added first; where a cycle leaves
\* no such component, the framework breaks an edge of the cycle and the
\* model runs the pending component added first.
NextToRun ==
    LET pending == {k \in 1..Len(AddOrder) : AddOrder[k] \notin Executed}
        ready == {k \in pending : Suppliers(AddOrder[k]) \subseteq Executed}
        first(S) == CHOOSE k \in S : \A j \in S : k <= j
    IN  AddOrder[IF ready # {} THEN first(ready) ELSE first(pending)]

\* one component of the group runs its solve_nonlinear: its outputs are
\* computed from the current outputs of its suppliers
RotorSE_solve_nonlinear ==
    /\ evals >= 1
    /\ Len(order) < Len(AddOrder)
    /\ LET c == NextToRun
       IN  /\ order' = Append(order, c)
           /\ prov' = [prov EXCEPT ![c] = {c} \cup UNION {prov[p] : p \in Suppliers(c)}]
    /\ UNCHANGED evals
    /\ UNCHANGED notGroup

\* rotor.run() again: the outer driver evaluates the whole group once more
Problem_run ==
    /\ evals >= 1
    /\ Len(order) = Len(AddOrder)
    /\ evals < MaxEvals
    /\ order' = <<>>
    /\ evals' = evals + 1
    /\ UNCHANGED prov
    /\ UNCHANGED notGroup

InitGroup ==
    /\ GridIdle /\ ResizeIdle /\ BeamIdle /\ MomentIdle
    /\ WindIdle /\ SplineIdle /\ CurvatureIdle /\ DeflIdle /\ DamageIdle /\ LateIdle
    /\ order = <<>>
    /\ prov = [c \in Components |-> {}]
    /\ evals = 1

NextGroup == RotorSE_solve_nonlinear \/ Problem_run

SpecGroup == InitGroup /\ [][NextGroup]_vars

---------------------------------------------------------------------------
(* Claims on the RotorSE group *)

EvaluationDone == evals >= 1 /\ Len(order) = Len(AddOrder)

\* C9 as stated: the root moment and force of each drivetrain azimuth case
\* are computed from the loads of the case's own load component: the
\* outputs of root_moment_0 derive from aero_0, those of root_moment_120
\* from aero_120 and those of root_moment_240 from aero_240.
C9_OwnLoadCase ==
    EvaluationDone =>
        /\ "aero_0" \in prov["root_moment_0"]
        /\ "aero_120" \in prov["root_moment_120"]
        /\ "aero_240" \in prov["root_moment_240"]

\* C9 witness: after an evaluation the three root-moment components derive
\* from aero_rated and from the same components as each other; the azimuth
\* of no case reaches the outputs of the group, and nothing consumes an
\* output of aero_0, aero_120 or aero_240.
C9_Witness ==
    /\ EvaluationDone
    /\ "azimuth_load0" \in prov["aero_0"] /\ "azimuth_load120" \in prov["aero_120"]
    /\ "azimuth_load240" \in prov["aero_240"]
    /\ "aero_rated" \in prov["root_moment_0"]
    /\ prov["root_moment_0"] \ {"root_moment_0"} = prov["root_moment_120"] \ {"root_moment_120"}
    /\ prov["root_moment_0"] \ {"root_moment_0"} = prov["root_moment_240"] \ {"root_moment_240"}
    /\ prov["output_struc"] \cap
          {"aero_0", "aero_120", "aero_240", "azimuth_load0", "azimuth_load120",
           "azimuth_load240"} = {}
    /\ Consumers("aero_0") \cup Consumers("aero_120") \cup Consumers("aero_240") = {}

\* C10: in an evaluation of the group no component runs twice, a component
\* runs only after every component that supplies one of its inputs, and at
\* the end every component has run; no component's outputs derive from
\* themselves (the connection graph has no cycle); the outputs of
\* blade_defl go to output_struc only and never reach spline.
C10_TopologicalOnce ==
    evals >= 1 =>
        /\ \A k \in 1..Len(order) : \A j \in 1..Len(order) : order[k] = order[j] => k = j
        /\ \A k \in 1..Len(order) :
              Suppliers(order[k]) \subseteq {order[j] : j \in 1..(k - 1)}
        /\ EvaluationDone => Executed = Components
        /\ \A c \in Components : c \notin UNION {prov[p] : p \in Suppliers(c)}
        /\ "blade_defl" \notin prov["spline"]
        /\ Consumers("blade_defl") = {"output_struc"}

\* C10 witness: the group has been evaluated again by the outer driver, every
\* component has run, and the blade-deflection corrections have reached the
\* outputs of the group but not the geometry spline.
C10_Witness ==
    /\ evals >= 2
    /\ EvaluationDone
    /\ Executed = Components
    /\ "blade_defl" \in prov["output_struc"]
    /\ "spline" \in prov["blade_defl"]
    /\ "blade_defl" \notin prov["spline"]

---------------------------------------------------------------------------
(* GridSetup on grids that nothing has validated *)

\* initial_aero_grid and initial_str_grid are arrays set by the caller
\* (rotor.py:2323-2324); solve_nonlinear reads them as they are.  The values
\* tried: below 0, the ends of [0, 1], an interior value, and above 1.
UncheckedValues == {Lit(k, GridDen) : k \in {-1, 0, 2, GridDen, GridDen + 1}}

InitGridUnchecked ==
    /\ ResizeIdle /\ BeamIdle /\ MomentIdle /\ GroupIdle
    /\ WindIdle /\ SplineIdle /\ CurvatureIdle /\ DeflIdle /\ DamageIdle /\ LateIdle
    /\ initial_aero_grid \in [1..NAero -> UncheckedValues]
    /\ initial_str_grid \in [1..NStr -> UncheckedValues]
    /\ r_aero = initial_aero_grid
    /\ fraction = [i \in 1..NStr |-> Zero]
    /\ idxj = [i \in 1..NStr |-> 0]
    /\ r_str = [i \in 1..NStr |-> Zero]
    /\ gpc = "start"

SpecGridUnchecked == InitGridUnchecked /\ [][NextGrid]_vars

InUnitInterval(s) == \A i \in 1..Len(s) : FGe(s[i], Zero) /\ FLe(s[i], One)
ValidGrid(s) == IsStrictlyIncreasing(s) /\ InUnitInterval(s)
GridsValid == ValidGrid(initial_aero_grid) /\ ValidGrid(initial_str_grid)

\* C12 as claimed: whenever the structural or the aerodynamic grid is not
\* strictly increasing or has a value outside [0, 1], GridSetup raises, so
\* that it publishes no fraction/idxj and RGrid, downstream of it, never runs.
C12_FailsFast == ~GridsValid => gpc \in {"start", "IndexError"}

\* C12 witness: with a grid that is not strictly increasing or leaves [0, 1],
\* GridSetup has returned normally and RGrid has been evaluated on its
\* outputs, one of which is a fraction outside [0, 1] or not a number.
C12_Witness ==
    /\ ~GridsValid
    /\ gpc = "grid"
    /\ \E i \in 1..NStr : ~(FGe(fraction[i], Zero) /\ FLe(fraction[i], One))

---------------------------------------------------------------------------
(* ResizeCompositeSection on a laminate with a zero-thickness sector *)

\* the input laminates with every ply of the trailing-edge sector of
\* station z (on the upper and on the lower surface) of thickness zero
ZeroTe(h, z, idx_te) ==
    [a \in DOMAIN h |->
        IF a = At(UpperIds(z), idx_te) \/ a = At(LowerIds(z), idx_te)
        THEN [p \in DOMAIN h[a] |-> Zero]
        ELSE h[a]]

InitResizeZeroTe ==
    /\ GridIdle /\ BeamIdle /\ MomentIdle /\ GroupIdle
    /\ WindIdle /\ SplineIdle /\ CurvatureIdle /\ DeflIdle /\ DamageIdle /\ LateIdle
    /\ upperCSIn = [i \in 1..NStr |-> Section(UpperIds(i), PliesPerSector)]
    /\ lowerCSIn = [i \in 1..NStr |-> Section(LowerIds(i), PliesPerSector)]
    /\ websCSIn = [i \in 1..NStr |-> Section(WebIds(i), <<2>>)]
    /\ \E c \in [1..NStr -> ChordPairs] :
          /\ chord_str = [i \in 1..NStr |-> c[i][1]]
          /\ chord_str_ref = [i \in 1..NStr |-> c[i][2]]
    /\ \E idx \in [1..NStr -> IdxPairs], v \in {0, 1}, z \in 1..NStr :
          /\ sector_idx_strain_spar = [i \in 1..NStr |-> idx[i][1]]
          /\ sector_idx_strain_te = [i \in 1..NStr |-> idx[i][2]]
          /\ heap = ZeroTe(InputHeap(v), z, idx[z][2])
    /\ \E k \in 1..2 :
          /\ sparT_str = [i \in 1..NStr |-> Lit(k + i, TargetDen)]
          /\ teT_str = [i \in 1..NStr |-> Lit(2 * k + i + 1, TargetDen)]
    /\ upperCSOut = <<>> /\ lowerCSOut = <<>> /\ websCSOut = <<>>
    /\ rpc = "start"

SpecResizeZeroTe == InitResizeZeroTe /\ [][NextResize]_vars

HasZeroTe(i) == \A p \in DOMAIN TeOf(upperCSIn, i) : TeOf(upperCSIn, i)[p] = Zero
NoNaN(cs) ==
    \A i \in 1..Len(cs) : \A j \in 1..Len(cs[i].t) :
        \A p \in DOMAIN heap[cs[i].t[j]] : ~IsNaN(heap[cs[i].t[j]][p])

\* C13 as claimed: with a trailing-edge sector of zero thickness at some
\* station, ResizeCompositeSection produces well-defined laminates: every
\* ply thickness of upperCSOut and lowerCSOut is a number (zero or very
\* large, infinite included), never nan.
C13_ZeroTeWellDefined ==
    (ResizeRan /\ \E i \in Stations : HasZeroTe(i)) =>
        NoNaN(upperCSOut) /\ NoNaN(lowerCSOut)

\* C13 witness: the resize has run on a station whose trailing-edge sector
\* has zero thickness and a positive target, and every ply of that sector of
\* the output, upper and lower, is nan.
C13_Witness ==
    /\ ResizeRan
    /\ \E i \in Stations :
          /\ HasZeroTe(i)
          /\ FGt(teT_str[i], Zero)
          /\ \A p \in DOMAIN TeOf(upperCSOut, i) : IsNaN(TeOf(upperCSOut, i)[p])
          /\ \A p \in DOMAIN TeOf(lowerCSOut, i) : IsNaN(TeOf(lowerCSOut, i)[p])

---------------------------------------------------------------------------
(* RotorWithpBEAM.damage *)

\* np.abs(x)
FAbs(x) == <<Abs(x[1]), x[2]>>

\* fraction bits of the fixed-point mantissa, and bits of log2 computed
LogFracBits == 12
LogBits == 10

\* floor(log2(n/d)) for n/d > 0
Ilog2(n, d) == IF n >= d THEN ShiftDown(n, 2 * d, 0) ELSE -ShiftUp(n, d, 0)

\* the first k bits after the point of log2(mf / 2^LogFracBits), for a
\* mantissa in [1, 2), by repeated squaring; acc holds the bits found so far
RECURSIVE Log2Frac(_, _, _)
Log2Frac(mf, k, acc) ==
    IF k = 0 THEN acc
    ELSE LET sq == (mf * mf) \div Pow2(LogFracBits)
         IN  IF sq >= Pow2(LogFracBits + 1)
             THEN Log2Frac(sq \div 2, k - 1, 2 * acc + 1)
             ELSE Log2Frac(sq, k - 1, 2 * acc)

\* math.log(x) and np.log(x) for x >= 0: log2(x) * ln(2), with ln(2) taken as
\* 2839/4096, rounded to a float; np.log(0) is -inf and the log of a negative
\* number or of nan is nan
FLog(x) ==
    IF IsNaN(x) \/ x[1] < 0 THEN NaN
    ELSE IF x[1] = 0 THEN NegInf
    ELSE IF x[2] = 0 THEN PosInf
    ELSE LET e == Ilog2(x[1], x[2])
             m == IF e >= 0 THEN Rat(x[1], x[2] * Pow2(e)) ELSE Rat(x[1] * Pow2(-e), x[2])
             mf == (m[1] * Pow2(LogFracBits)) \div m[2]
             L == e * Pow2(LogBits) + Log2Frac(mf, LogBits, 0)
         IN  Fl(Rat(L * 2839, Pow2(LogBits) * 4096))

\* np.log(np.abs(strain))
LogStrain(strain) == FLog(strain)
LogAbsStrain(strain) == FLog(FAbs(strain))

\* strain = -(M1/EI11*y - M2/EI22*x + Fz/EA) at the point (xs, ys) of the
\* section, with Mx, My already exchanged and xs, ys already exchanged
StrainAt(a, Mx, My, xs, ys) ==
    LET Fz == Zero
        M1 == FAdd(FMul(Mx, a.ca), FMul(My, a.sa))
        M2 == FAdd(FMul(FNeg(Mx), a.sa), FMul(My, a.ca))
        x == FAdd(FMul(xs, a.ca), FMul(ys, a.sa))
        y == FAdd(FMul(FNeg(xs), a.sa), FMul(ys, a.ca))
    IN  FNeg(FAdd(FSub(FMul(FDiv(M1, a.EI11), y), FMul(FDiv(M2, a.EI22), x)),
                  FDiv(Fz, a.EA)))

\* math.log(N) - m*(math.log(emax) - math.log(eta) - np.log(np.abs(strain)))
LogDamage(a, strain) ==
    FSub(FLog(a.N),
         FMul(a.m, FSub(FSub(FLog(a.emax), FLog(a.eta)), LogAbsStrain(strain))))

\* damage(Mx, My, xu, yu, xl, yl, EI11, EI22, EA, ca, sa, emax, eta, m, N),
\* its arguments in the record a; the result is the pair damageU, damageL.
\* (NfU, NfL and the first damageU, damageL = N/Nf are overwritten unused.)
damage(a) ==
    LET Mx == a.My
        My == a.Mx
        strainU == StrainAt(a, Mx, My, a.yu, a.xu)
        strainL == StrainAt(a, Mx, My, a.yl, a.xl)
    IN  <<LogDamage(a, strainU), LogDamage(a, strainL)>>

\* the strains damage computes on the way
damageStrains(a) ==
    <<StrainAt(a, a.My, a.Mx, a.yu, a.xu), StrainAt(a, a.My, a.Mx, a.yl, a.xl)>>

RotorWithpBEAM_damage ==
    /\ fpc = "start"
    /\ damageU' = damage(damage_args)[1]
    /\ damageL' = damage(damage_args)[2]
    /\ fpc' = "done"
    /\ UNCHANGED damage_args
    /\ UNCHANGED notDamage

\* the damage-equivalent moments, the strain locations, the principal
\* direction (cos, sin) and the number of cycles tried
MomentValues == {Lit(-1, 1), Zero, Lit(2, 1)}
StrainLocations == {<<Lit(1, 2), Lit(1, 4)>>, <<Lit(-1, 4), Lit(1, 2)>>}
PrincipalDirections == {<<One, Zero>>, <<Lit(4, 5), Lit(3, 5)>>}
CycleValues == {Lit(20, 1), Lit(1000, 1), Lit(365 * 24 * 3600 * 20, 1)}

InitDamage ==
    /\ CoreIdle /\ WindIdle /\ SplineIdle /\ CurvatureIdle /\ DeflIdle /\ LateIdle
    /\ \E Mx \in MomentValues, My \in MomentValues, pu \in StrainLocations,
          pl \in StrainLocations, dir \in PrincipalDirections, N \in CycleValues,
          EI \in {Lit(2, 1), Lit(4, 1)} :
          damage_args = [Mx |-> Mx, My |-> My, xu |-> pu[1], yu |-> pu[2],
                         xl |-> pl[1], yl |-> FNeg(pl[2]),
                         EI11 |-> EI, EI22 |-> Lit(3, 1), EA |-> Lit(8, 1),
                         ca |-> dir[1], sa |-> dir[2],
                         emax |-> Lit(1, 100), eta |-> Lit(1755, 1000),
                         m |-> Lit(10, 1), N |-> N]
    /\ damageU = Zero /\ damageL = Zero
    /\ fpc = "start"

NextDamage == RotorWithpBEAM_damage

SpecDamage == InitDamage /\ [][NextDamage]_vars

---------------------------------------------------------------------------
(* Claims on RotorWithpBEAM.damage *)

DamageRan == fpc = "done"
\* the same call with another number of cycles, and with the moments negated
WithCycles(a, N) == [a EXCEPT !.N = N]
WithMomentsNegated(a) == [a EXCEPT !.Mx = FNeg(a.Mx), !.My = FNeg(a.My)]

\* C14 (amended): damage returns ln(N) - m*(ln(emax) - ln(eta) - ln|strain|)
\* for the upper and the lower strain; with everything else fixed, a larger
\* number of cycles never gives a smaller damage, and gives a strictly
\* larger one where the strain is not zero (for cycle counts that differ by
\* more than the rounding of the result, as those of CycleValues do); where
\* the strain is zero the damage is -inf for every N.  Negating
\* the moments, which negates both strains and keeps their magnitude,
\* leaves the damage unchanged.
C14_DamageNonDecreasingInCycles ==
    DamageRan =>
        LET a == damage_args
            e == damageStrains(a)
            known == FSub(FLog(a.emax), FLog(a.eta))
        IN  /\ damageU = FSub(FLog(a.N), FMul(a.m, FSub(known, FLog(FAbs(e[1])))))
            /\ damageL = FSub(FLog(a.N), FMul(a.m, FSub(known, FLog(FAbs(e[2])))))
            /\ \A N2 \in CycleValues :
                  FGt(N2, a.N) =>
                      /\ FGe(damage(WithCycles(a, N2))[1], damageU)
                      /\ FGe(damage(WithCycles(a, N2))[2], damageL)
            /\ \A N2 \in CycleValues :
                  FGt(N2, a.N) =>
                      /\ e[1] # Zero => FGt(damage(WithCycles(a, N2))[1], damageU)
                      /\ e[2] # Zero => FGt(damage(WithCycles(a, N2))[2], damageL)
            /\ e[1] = Zero => damageU = NegInf
            /\ e[2] = Zero => damageL = NegInf
            /\ damageStrains(WithMomentsNegated(a)) = <<FNeg(e[1]), FNeg(e[2])>>
            /\ damage(WithMomentsNegated(a)) = <<damageU, damageL>>

\* C14 witness: damage has been computed for a negative upper strain and a
\* positive lower one, and a larger number of cycles gives a strictly larger
\* damage on both surfaces.
C14_Witness ==
    /\ DamageRan
    /\ LET a == damage_args
           e == damageStrains(a)
       IN  /\ FLt(e[1], Zero) /\ FGt(e[2], Zero)
           /\ IsFinite(damageU) /\ IsFinite(damageL)
           /\ \E N2 \in CycleValues :
                 /\ FGt(N2, a.N)
                 /\ FGt(damage(WithCycles(a, N2))[1], damageU)
                 /\ FGt(damage(WithCycles(a, N2))[2], damageL)

\* C14 as claimed: with everything else fixed, a larger number of cycles
\* gives a strictly larger damage.
C14_DamageStrictlyIncreasingInCycles ==
    DamageRan =>
        \A N2 \in CycleValues :
            FGt(N2, damage_args.N) =>
                /\ FGt(damage(WithCycles(damage_args, N2))[1], damageU)
                /\ FGt(damage(WithCycles(damage_args, N2))[2], damageL)

---------------------------------------------------------------------------
(* TurbineClass and GustETM *)

\* The declared value of turbine_class and turbulence_class is the object
\* Enum('I', 'II', 'III') (resp. Enum('A', 'B', 'C')) of the enum module,
\* which equals no string; it is the value "Enum" here.
TurbineClasses == {"I", "II", "III", "IV", "Enum"}
TurbulenceClasses == {"A", "B", "C", "Enum"}

\* the if/elif chain of TurbineClass.solve_nonlinear; "unbound" when no
\* branch assigns Vref
Vref(cls) ==
    IF cls = "I" THEN Lit(50, 1)
    ELSE IF cls = "II" THEN Lit(425, 10)
    ELSE IF cls = "III" THEN Lit(375, 10)
    ELSE IF cls = "IV" THEN Lit(30, 1)
    ELSE "unbound"

TurbineClass_solve_nonlinear ==
    /\ wpc = "start"
    /\ IF Vref(turbine_class) = "unbound"
       THEN \* 0.2*Vref reads a local variable that was never assigned
            /\ wpc' = "turbineclass: UnboundLocalError"
            /\ UNCHANGED <<V_mean, V_extreme, V_extreme_full>>
       ELSE /\ V_mean' = FMul(Lit(2, 10), Vref(turbine_class))
            /\ V_extreme' = FMul(Lit(14, 10), Vref(turbine_class))
            /\ V_extreme_full' = <<FMul(Lit(14, 10), Vref(turbine_class)),
                                   FMul(Lit(14, 10), Vref(turbine_class))>>
            /\ wpc' = "turbineclass"
    /\ UNCHANGED <<turbine_class, turbulence_class, V_hub, std, V_gust>>
    /\ UNCHANGED notWind

\* the if/elif chain of GustETM.solve_nonlinear
IrefWrong(cls) ==
    IF cls = "A" THEN Lit(16, 100)
    ELSE IF cls = "B" THEN Lit(12, 100)
    ELSE IF cls = "C" THEN Lit(14, 100)
    ELSE "unbound"

Iref(cls) ==
    IF cls = "A" THEN Lit(16, 100)
    ELSE IF cls = "B" THEN Lit(14, 100)
    ELSE IF cls = "C" THEN Lit(12, 100)
    ELSE "unbound"

\* c * Iref * (0.072*(self.V_mean/c + 3)*(self.V_hub/c - 4) + 10), c = 2.0
sigma(cls, Vm, Vh) ==
    LET c == Lit(2, 1)
    IN  FMul(FMul(c, Iref(cls)),
             FAdd(FMul(FMul(Lit(72, 1000), FAdd(FDiv(Vm, c), Lit(3, 1))),
                       FSub(FDiv(Vh, c), Lit(4, 1))),
                  Lit(10, 1)))

GustETM_solve_nonlinear ==
    /\ wpc = "turbineclass"
    /\ IF Iref(turbulence_class) = "unbound"
       THEN /\ wpc' = "gust: UnboundLocalError"
            /\ UNCHANGED V_gust
       ELSE /\ V_gust' = FAdd(V_hub, FMul(Lit(std, 1), sigma(turbulence_class, V_mean, V_hub)))
            /\ wpc' = "gust"
    /\ UNCHANGED <<turbine_class, turbulence_class, V_hub, std, V_mean, V_extreme,
                   V_extreme_full>>
    /\ UNCHANGED notWind

\* hub-height wind speeds and numbers of standard deviations tried
HubSpeeds == {Lit(6, 1), Lit(8, 1), Lit(23, 2), Lit(25, 1)}
StdValues == {0, 1, 3}

InitWind ==
    /\ CoreIdle /\ SplineIdle /\ CurvatureIdle /\ DeflIdle /\ DamageIdle /\ LateIdle
    /\ turbine_class \in TurbineClasses
    /\ turbulence_class \in TurbulenceClasses
    /\ V_hub \in HubSpeeds
    /\ std \in StdValues
    /\ V_mean = Zero /\ V_extreme = Zero /\ V_extreme_full = <<Zero, Zero>>
    /\ V_gust = Zero
    /\ wpc = "start"

NextWind ==
    \/ TurbineClass_solve_nonlinear
    \/ GustETM_solve_nonlinear

SpecWind == InitWind /\ [][NextWind]_vars

---------------------------------------------------------------------------
(* Claims on TurbineClass and GustETM *)

TurbineClassCalled == wpc # "start"

\* C15 as claimed: for every value of turbine_class, TurbineClass returns
\* with V_mean = 0.2*Vref and V_extreme = V_extreme_full[0] =
\* V_extreme_full[1] = 1.4*Vref, where Vref is 50, 42.5, 37.5 for class I,
\* II, III.
C15_EveryClassGivesSpeeds ==
    TurbineClassCalled =>
        /\ wpc # "turbineclass: UnboundLocalError"
        /\ turbine_class = "I" => V_mean = FMul(Lit(2, 10), Lit(50, 1))
        /\ turbine_class = "II" => V_mean = FMul(Lit(2, 10), Lit(425, 10))
        /\ turbine_class = "III" => V_mean = FMul(Lit(2, 10), Lit(375, 10))
        /\ \E v \in {Lit(50, 1), Lit(425, 10), Lit(375, 10), Lit(30, 1)} :
              /\ V_mean = FMul(Lit(2, 10), v)
              /\ V_extreme = FMul(Lit(14, 10), v)
              /\ V_extreme_full = <<V_extreme, V_extreme>>

\* C15 witness: TurbineClass was called with turbine_class at its declared
\* value, raised, and left its outputs at their initial zeros.
C15_Witness ==
    /\ turbine_class = "Enum"
    /\ wpc = "turbineclass: UnboundLocalError"
    /\ V_mean = Zero /\ V_extreme = Zero /\ V_extreme_full = <<Zero, Zero>>

GustRan == wpc = "gust"

\* C16: for turbulence class A, B, C, GustETM outputs
\* V_gust = V_hub + std*sigma with
\* sigma = 2*Iref*(0.072*(V_mean/2 + 3)*(V_hub/2 - 4) + 10) and
\* Iref = 0.16, 0.14, 0.12; with std = 0, V_gust is V_hub exactly.
C16_GustFormula ==
    GustRan =>
        LET I == IF turbulence_class = "A" THEN Lit(16, 100)
                 ELSE IF turbulence_class = "B" THEN Lit(14, 100)
                 ELSE Lit(12, 100)
            two == Lit(2, 1)
            sig == FMul(FMul(two, I),
                        FAdd(FMul(FMul(Lit(72, 1000), FAdd(FDiv(V_mean, two), Lit(3, 1))),
                                  FSub(FDiv(V_hub, two), Lit(4, 1))),
                             Lit(10, 1)))
        IN  /\ turbulence_class \in {"A", "B", "C"}
            /\ V_gust = FAdd(V_hub, FMul(Lit(std, 1), sig))
            /\ std = 0 => V_gust = V_hub

\* C16 witness: GustETM has run with zero standard deviations on a nonzero
\* sigma, and V_gust is V_hub.
C16_Witness ==
    /\ GustRan
    /\ std = 0
    /\ sigma(turbulence_class, V_mean, V_hub) # Zero
    /\ FGt(V_hub, Zero)
    /\ V_gust = V_hub

---------------------------------------------------------------------------
(* GeometrySpline, and the hub diameter OutputsAero publishes *)

\* np.linspace(a, b, n), n >= 2: a + k*step for k < n - 1, and b itself last
linspace(a, b, n) ==
    [k \in 1..n |-> IF k = n THEN b
                    ELSE FAdd(FMul(Lit(k - 1, 1), FDiv(FSub(b, a), Lit(n - 1, 1))), a)]

\* Akima(xp, yp).interp(xs)[0]: the value of the Akima spline through the
\* points (xp, yp) at each x of xs.  The spline is a function of (xp, yp, x)
\* alone; a value is kept as the term naming the three.
AkimaInterp(xp, yp, xs) ==
    [i \in 1..Len(xs) |-> [akima |-> <<xp, yp>>, at |-> xs[i]]]

\* xs[k:]
From(xs, k) == [i \in 1..(Len(xs) - k) |-> xs[i + k]]

\* Rhub + (Rtip-Rhub)*r_unit
Dimensional(Rhub, Rtip, r_unit) ==
    [i \in 1..Len(r_unit) |-> FAdd(Rhub, FMul(FSub(Rtip, Rhub), r_unit[i]))]

\* 2.0*Rhub
DiameterOfTip(Rhub, Rtip) == FMul(Lit(2, 1), Rtip)
Diameter(Rhub, Rtip) == FMul(Lit(2, 1), Rhub)

\* np.concatenate([theta_outer[0]*np.ones(idxc), theta_outer]); a float
\* times 1.0 is itself
TwistFromLast(theta_outer, idxc) ==
    [i \in 1..(idxc + Len(theta_outer)) |->
        IF i <= idxc THEN theta_outer[Len(theta_outer)] ELSE theta_outer[i - idxc]]
Twist(theta_outer, idxc) ==
    [i \in 1..(idxc + Len(theta_outer)) |->
        IF i <= idxc THEN At(theta_outer, 0) ELSE theta_outer[i - idxc]]

GeometrySpline_solve_nonlinear ==
    /\ spc = "start"
    /\ LET P == spline_params
           Rhub == FMul(P.hubFraction, P.bladeLength)
           Rtip == FAdd(Rhub, P.bladeLength)
           nc == Len(P.chord_sub)
           r_max_chord == FAdd(Rhub, FMul(FSub(Rtip, Rhub), P.r_max_chord))
           rc == <<Rhub>> \o linspace(r_max_chord, Rtip, nc - 1)
           nt == Len(P.theta_sub)
           idxc_aero == P.idx_cylinder_aero
           idxc_str == P.idx_cylinder_str
       IN  IF idxc_aero >= Len(P.r_aero_unit)
           THEN \* params['r_aero_unit'][idxc_aero] is out of range
                /\ spc' = "spline: IndexError"
                /\ UNCHANGED spline_unknowns
           ELSE LET r_cylinder == FAdd(Rhub, FMul(FSub(Rtip, Rhub),
                                                  At(P.r_aero_unit, idxc_aero)))
                    rt == linspace(r_cylinder, Rtip, nt)
                    r_aero_ == Dimensional(Rhub, Rtip, P.r_aero_unit)
                    r_str_ == Dimensional(Rhub, Rtip, P.r_str_unit)
                    theta_outer_aero == AkimaInterp(rt, P.theta_sub, From(r_aero_, idxc_aero))
                    theta_outer_str == AkimaInterp(rt, P.theta_sub, From(r_str_, idxc_str))
                    precurve_knots == <<Zero>> \o P.precurve_sub
                    U1 == [spline_unknowns EXCEPT
                              !.r_sub_precurve = From(rc, 1),
                              !.Rhub = Rhub,
                              !.Rtip = Rtip,
                              !.diameter = Diameter(Rhub, Rtip),
                              !.r_aero = r_aero_,
                              !.r_str = r_str_,
                              !.chord_aero = AkimaInterp(rc, P.chord_sub, r_aero_),
                              !.chord_str = AkimaInterp(rc, P.chord_sub, r_str_),
                              !.theta_aero = Twist(theta_outer_aero, idxc_aero)]
                    rs == linspace(Zero, Rtip, Len(P.sparT))
                IN  IF Len(theta_outer_str) = 0
                    THEN \* theta_outer_str[0] of an empty array
                         /\ spc' = "spline: IndexError"
                         /\ spline_unknowns' = U1
                    ELSE /\ spc' = "spline"
                         /\ spline_unknowns' =
                               [U1 EXCEPT
                                  !.theta_str = Twist(theta_outer_str, idxc_str),
                                  !.precurve_aero = AkimaInterp(rc, precurve_knots, r_aero_),
                                  !.precurve_str = AkimaInterp(rc, precurve_knots, r_str_),
                                  !.presweep_str = [i \in 1..Len(r_str_) |-> Zero],
                                  !.sparT_str = AkimaInterp(rs, P.sparT, r_str_),
                                  !.teT_str = AkimaInterp(rs, P.teT, r_str_)]
    /\ UNCHANGED <<spline_params, hub_diameter>>
    /\ UNCHANGED notSpline

\* unknowns['hub_diameter'] = params['hub_diameter_in'], which is connected
\* to spline.diameter (the other outputs of OutputsAero copy inputs that
\* come from components outside this part of the model)
OutputsAero_solve_nonlinear ==
    /\ spc = "spline"
    /\ hub_diameter' = spline_unknowns.diameter
    /\ spc' = "outputs_aero"
    /\ UNCHANGED <<spline_params, spline_unknowns>>
    /\ UNCHANGED notSpline

\* the unit grids, blade lengths, hub fractions and control points tried
UniformGrid(n) == [i \in 1..n |-> Lit(i - 1, n - 1)]
SplineLengths == {Lit(40, 1), Lit(61, 1)}
HubFractions == {Zero, Lit(1, 40)}
ThetaSub == <<Lit(13, 1), Lit(9, 1), Lit(3, 1), Lit(-1, 10)>>
ChordSub == <<Lit(3, 1), Lit(9, 2), Lit(3, 1), Lit(1, 1)>>

InitSpline ==
    /\ CoreIdle /\ WindIdle /\ CurvatureIdle /\ DeflIdle /\ DamageIdle /\ LateIdle
    /\ \E ra \in Grids(NSpline), rs \in {1, 2}, ia \in 0..NSpline, is \in 0..NSpline,
          L \in SplineLengths, hf \in HubFractions :
          spline_params =
              [r_aero_unit |-> ra,
               r_str_unit |-> IF rs = 1 THEN ra ELSE UniformGrid(NSpline),
               r_max_chord |-> Lit(1, 4),
               chord_sub |-> ChordSub,
               theta_sub |-> ThetaSub,
               precurve_sub |-> <<Zero, Lit(1, 2), Lit(2, 1)>>,
               bladeLength |-> L,
               sparT |-> <<Lit(5, 100), Lit(5, 100), Lit(4, 100), Lit(2, 100), Lit(1, 100)>>,
               teT |-> <<Lit(1, 10), Lit(9, 100), Lit(6, 100), Lit(3, 100), Lit(1, 100)>>,
               idx_cylinder_aero |-> ia,
               idx_cylinder_str |-> is,
               hubFraction |-> hf]
    /\ spline_unknowns =
          [Rhub |-> Zero, Rtip |-> Zero, diameter |-> Zero,
           r_aero |-> [i \in 1..NSpline |-> Zero], r_str |-> [i \in 1..NSpline |-> Zero],
           chord_aero |-> [i \in 1..NSpline |-> Zero],
           chord_str |-> [i \in 1..NSpline |-> Zero],
           theta_aero |-> [i \in 1..NSpline |-> Zero],
           theta_str |-> [i \in 1..NSpline |-> Zero],
           precurve_aero |-> [i \in 1..NSpline |-> Zero],
           precurve_str |-> [i \in 1..NSpline |-> Zero],
           presweep_str |-> [i \in 1..NSpline |-> Zero],
           sparT_str |-> [i \in 1..NSpline |-> Zero],
           teT_str |-> [i \in 1..NSpline |-> Zero],
           r_sub_precurve |-> <<Zero, Zero, Zero>>]
    /\ hub_diameter = Zero
    /\ spc = "start"

NextSpline ==
    \/ GeometrySpline_solve_nonlinear
    \/ OutputsAero_solve_nonlinear

SpecSpline == InitSpline /\ [][NextSpline]_vars

---------------------------------------------------------------------------
(* Claims on GeometrySpline *)

SplineCalled == spc # "start"
\* the radii are written before anything that can raise after the first check
RadiiWritten == spc \in {"spline", "outputs_aero"}

\* C17: GeometrySpline outputs Rhub = hubFraction*bladeLength,
\* Rtip = Rhub + bladeLength and diameter = 2*Rhub, which is not 2*Rtip for
\* a blade of nonzero length; the group publishes this diameter as the hub
\* diameter.
C17_DiameterIsTwiceHubRadius ==
    /\ RadiiWritten =>
          LET U == spline_unknowns
          IN  /\ U.Rhub = FMul(spline_params.hubFraction, spline_params.bladeLength)
              /\ U.Rtip = FAdd(U.Rhub, spline_params.bladeLength)
              /\ U.diameter = FMul(Lit(2, 1), U.Rhub)
              /\ U.diameter # FMul(Lit(2, 1), U.Rtip)
    /\ spc = "outputs_aero" => hub_diameter = FMul(Lit(2, 1), spline_unknowns.Rhub)

\* C17 witness: the hub diameter has been published for a blade with a hub
\* of nonzero radius, and it is twice that radius.
C17_Witness ==
    /\ spc = "outputs_aero"
    /\ FGt(spline_unknowns.Rhub, Zero)
    /\ FGt(spline_unknowns.Rtip, spline_unknowns.Rhub)
    /\ hub_diameter = FMul(Lit(2, 1), spline_unknowns.Rhub)

\* on one grid: the twist is the same at every station before index idxc
\* and is the twist at index idxc
ConstantInboard(theta, idxc) ==
    \A i \in 0..(idxc - 1) : At(theta, i) = At(theta, idxc)

\* C18 (amended): for a first non-cylindrical index below the number of
\* stations on both grids, GeometrySpline returns, and on each grid the
\* twist of every station inboard of the index equals the twist at the
\* index, which is the first value interpolated from the twist spline.  For
\* an index equal to the number of stations (on either grid) it raises
\* IndexError and publishes no structural twist.
C18_TwistConstantInboardOfValidIndex ==
    SplineCalled =>
        LET P == spline_params
            U == spline_unknowns
        IN  IF P.idx_cylinder_aero < NSpline /\ P.idx_cylinder_str < NSpline
            THEN /\ RadiiWritten
                 /\ ConstantInboard(U.theta_aero, P.idx_cylinder_aero)
                 /\ ConstantInboard(U.theta_str, P.idx_cylinder_str)
                 /\ At(U.theta_aero, P.idx_cylinder_aero).at = At(U.r_aero, P.idx_cylinder_aero)
                 /\ At(U.theta_str, P.idx_cylinder_str).at = At(U.r_str, P.idx_cylinder_str)
            ELSE /\ spc = "spline: IndexError"
                 /\ U.theta_str = [i \in 1..NSpline |-> Zero]

\* C18 witness: GeometrySpline has returned for indices past the first
\* station on both grids, with a twist that is constant up to the index and
\* different beyond it.
C18_Witness ==
    /\ RadiiWritten
    /\ spline_params.idx_cylinder_aero = 1
    /\ spline_params.idx_cylinder_str > 1
    /\ ConstantInboard(spline_unknowns.theta_aero, 1)
    /\ ConstantInboard(spline_unknowns.theta_str, spline_params.idx_cylinder_str)
    /\ At(spline_unknowns.theta_aero, 2) # At(spline_unknowns.theta_aero, 1)

\* C18 as claimed: for any index between 0 and the number of stations,
\* GeometrySpline returns a twist that is constant inboard of the index on
\* both grids.
C18_TwistConstantInboardOfAnyIndex ==
    SplineCalled =>
        /\ RadiiWritten
        /\ \A i \in 1..NSpline :
              /\ i <= spline_params.idx_cylinder_aero =>
                    spline_unknowns.theta_aero[i] = spline_unknowns.theta_aero[1]
              /\ i <= spline_params.idx_cylinder_str =>
                    spline_unknowns.theta_str[i] = spline_unknowns.theta_str[1]

---------------------------------------------------------------------------
(* BladeCurvature *)

\* atan(p/q) for 0 <= p <= q, q > 0, as an unrounded rational: the
\* approximation t*(pi/4 + 0.273*(1 - t)) with pi/4 taken as 201/256 and
\* 0.273 as 70/256, which is within the rounding of the model's floats
AtanUnit(p, q) == Rat(p * (201 * q + 70 * (q - p)), 256 * q * q)

\* atan2(y, x) for finite y and x (the sign of a zero is not kept: -0.0 is 0.0)
FAtan2(y, x) ==
    IF IsNaN(y) \/ IsNaN(x) \/ IsInf(y) \/ IsInf(x) THEN NaN
    ELSE IF y[1] = 0 THEN (IF x[1] >= 0 THEN Zero ELSE Lit(804, 256))
    ELSE LET ay == Abs(y[1]) * x[2]
             ax == Abs(x[1]) * y[2]
             g == GCD(ay, ax)
             p == ay \div g
             q == ax \div g
             a == IF p <= q THEN AtanUnit(p, q)
                  ELSE LET b == AtanUnit(q, p) IN Rat(402 * b[2] - 256 * b[1], 256 * b[2])
             t == IF x[1] >= 0 THEN a ELSE Rat(804 * a[2] - 256 * a[1], 256 * a[2])
         IN  Fl(<<Sign(y[1]) * t[1], t[2]>>)

\* np.degrees(x)
degrees(x) == FMul(x, Lit(57296, 1000))

\* the cone angle of the segment from station a to station b:
\* atan2(-(x(b) - x(a)), z(b) - z(a))
ConeSegmentSwapped(x, z, a, b) == FAtan2(FSub(z[b], z[a]), FNeg(FSub(x[b], x[a])))
ConeSegment(x, z, a, b) == FAtan2(FNeg(FSub(x[b], x[a])), FSub(z[b], z[a]))

\* the path length up to station i: s(1) = 0,
\* s(i) = s(i-1) + sqrt(dprecurve**2 + dpresweep**2 + dr**2)
RECURSIVE PathLength(_, _, _, _)
PathLength(r, precurve, presweep, i) ==
    IF i = 1 THEN Zero
    ELSE LET dc == FSub(precurve[i], precurve[i - 1])
             dw == FSub(presweep[i], presweep[i - 1])
             dr == FSub(r[i], r[i - 1])
         IN  FAdd(PathLength(r, precurve, presweep, i - 1),
                  FSqrt(FAdd(FAdd(FMul(dc, dc), FMul(dw, dw)), FMul(dr, dr))))

\* _bem.definecurvature_dv2(r, ., precurve, ., presweep, ., 0.0, .): the
\* values it returns.  With precone = 0.0 the azimuth coordinates are
\* x_az = precurve, y_az = presweep, z_az = r; cone is one-sided at the ends
\* and the mean of the two neighbouring segments inside.
definecurvature(r, precurve, presweep) ==
    LET n == Len(r)
    IN  [x_az |-> precurve,
         y_az |-> presweep,
         z_az |-> r,
         cone |-> [i \in 1..n |->
                     IF i = 1 THEN ConeSegment(precurve, r, 1, 2)
                     ELSE IF i = n THEN ConeSegment(precurve, r, n - 1, n)
                     ELSE FMul(Lit(1, 2), FAdd(ConeSegment(precurve, r, i - 1, i),
                                               ConeSegment(precurve, r, i, i + 1)))],
         s |-> [i \in 1..n |-> PathLength(r, precurve, presweep, i)]]

\* the derivatives definecurvature_dv2 returns are those of the function
\* above at (r, precurve, presweep); J holds them by the point they were
\* taken at, next to the blocks that are constants
Jacobian(r, precurve, presweep) ==
    [dv2_at |-> <<r, precurve, presweep>>,
     totalCone_precone |-> [i \in 1..Len(r) |-> One],
     s_precone |-> [i \in 1..Len(r) |-> Zero]]

\* a component object before its first solve_nonlinear
NewComponent ==
    [r |-> <<>>, precurve |-> <<>>, presweep |-> <<>>, precone |-> <<>>,
     x_az |-> <<>>, y_az |-> <<>>, z_az |-> <<>>, totalCone |-> <<>>, s |-> <<>>,
     J |-> <<>>]

\* self.r = params['r']; self.precurve = ...; self.presweep = ...; self.precone = ...
StoreOnce(obj, P) ==
    IF obj.r = <<>>
    THEN [obj EXCEPT !.r = P.r, !.precurve = P.precurve, !.presweep = P.presweep,
                     !.precone = P.precone]
    ELSE obj
Store(obj, P) ==
    [obj EXCEPT !.r = P.r, !.precurve = P.precurve, !.presweep = P.presweep,
                !.precone = P.precone]

\* the rest of solve_nonlinear, on the attributes just stored
Solve(obj) ==
    LET c == definecurvature(obj.r, obj.precurve, obj.presweep)
    IN  [obj EXCEPT
            !.x_az = c.x_az, !.y_az = c.y_az, !.z_az = c.z_az,
            !.totalCone = [i \in 1..Len(obj.r) |-> FAdd(obj.precone, degrees(c.cone[i]))],
            !.s = [i \in 1..Len(obj.r) |-> FAdd(obj.r[1], c.s[i])],
            !.J = Jacobian(obj.r, obj.precurve, obj.presweep)]

Unknowns(obj) ==
    [totalCone |-> obj.totalCone, x_az |-> obj.x_az, y_az |-> obj.y_az,
     z_az |-> obj.z_az, s |-> obj.s]

BladeCurvature_solve_nonlinear ==
    /\ cpc = "set"
    /\ curvature_self' = Solve(Store(curvature_self, curvature_params))
    /\ curvature_unknowns' = Unknowns(curvature_self')
    /\ cpc' = "solved"
    /\ UNCHANGED <<curvature_params, curvature_J, cevals>>
    /\ UNCHANGED notCurvature

\* return self.J
BladeCurvature_linearize ==
    /\ cpc = "solved"
    /\ curvature_J' = curvature_self.J
    /\ cpc' = "linearized"
    /\ UNCHANGED <<curvature_params, curvature_self, curvature_unknowns, cevals>>
    /\ UNCHANGED notCurvature

\* the blades tried: radial stations with unequal spacing, running outboard
\* or (k = -1) inboard, no precurve or a curved blade, no presweep or a swept
\* blade, and two precone angles
CurvatureInputs ==
    {[r |-> [i \in 1..NSpline |->
                Lit(IF k > 0 THEN 3 + k * (i - 1) * i ELSE 27 - (i - 1) * i, 2)],
      precurve |-> [i \in 1..NSpline |->
                       IF c = 0 THEN Zero ELSE Lit((i - 1) * (i - 1), 4)],
      presweep |-> [i \in 1..NSpline |-> Lit(w * (i - 1), 4)],
      precone |-> pc] :
        k \in {1, 2, -1}, c \in {0, 1}, w \in {0, 1}, pc \in {Zero, Lit(5, 2)}}

\* the driver sets new inputs and evaluates the component again; what the
\* earlier calls returned stays with the caller until the next call returns
Problem_run_curvature ==
    /\ cpc \in {"solved", "linearized"}
    /\ cevals < MaxEvals
    /\ curvature_params' \in CurvatureInputs
    /\ cpc' = "set"
    /\ cevals' = cevals + 1
    /\ UNCHANGED <<curvature_self, curvature_unknowns, curvature_J>>
    /\ UNCHANGED notCurvature

InitCurvature ==
    /\ CoreIdle /\ WindIdle /\ SplineIdle /\ DeflIdle /\ DamageIdle /\ LateIdle
    /\ curvature_params \in CurvatureInputs
    /\ curvature_self = NewComponent
    /\ curvature_unknowns =
          [totalCone |-> [i \in 1..NSpline |-> Zero], x_az |-> [i \in 1..NSpline |-> Zero],
           y_az |-> [i \in 1..NSpline |-> Zero], z_az |-> [i \in 1..NSpline |-> Zero],
           s |-> [i \in 1..NSpline |-> Zero]]
    /\ curvature_J = <<>>
    /\ cpc = "set"
    /\ cevals = 1

NextCurvature ==
    \/ BladeCurvature_solve_nonlinear
    \/ BladeCurvature_linearize
    \/ Problem_run_curvature

SpecCurvature == InitCurvature /\ [][NextCurvature]_vars

CurvatureSolved == cpc \in {"solved", "linearized"}
Straight ==
    \A i \in 1..NSpline : curvature_params.precurve[i] = Zero /\ curvature_params.presweep[i] = Zero
ConeIsPrecone ==
    \A i \in 1..NSpline : curvature_unknowns.totalCone[i] = curvature_params.precone
Anchored == curvature_unknowns.s[1] = curvature_params.r[1]

FreshUnknowns(P) == Unknowns(Solve(Store(NewComponent, P)))
FreshJacobian(P) == Solve(Store(NewComponent, P)).J

---------------------------------------------------------------------------
(* BladeDeflection *)

\* the angle, of those the model has the cosine and sine of, that a float holds
AngleOf(x) == CHOOSE a \in ConeAngles : Lit(a, 1) = x

\* DirectionVector(dx, dy, dz).airfoilToBlade(theta): the rotation about the
\* z axis back by the twist, xnew = x*c + y*s, ynew = -x*s + y*c with
\* c = cos(-theta), s = sin(-theta)
airfoilToBlade(dx, dy, dz, theta) ==
    LET c(i) == CosDeg(-AngleOf(theta[i]))
        sn(i) == SinDeg(-AngleOf(theta[i]))
    IN  [x |-> [i \in 1..Len(dx) |-> FAdd(FMul(dx[i], c(i)), FMul(dy[i], sn(i)))],
         y |-> [i \in 1..Len(dx) |-> FAdd(FMul(FNeg(dx[i]), sn(i)), FMul(dy[i], c(i)))],
         z |-> dz]

\* Rhub0 + np.sum(np.sqrt((precurve[1:] - precurve[:-1])**2 + (r[1:] - r[:-1])**2))
ArcLength(Rhub0, precurve, r) ==
    FAdd(Rhub0,
         npsum([i \in 1..(Len(r) - 1) |->
                  LET dc == FSub(precurve[i + 1], precurve[i])
                      dr == FSub(r[i + 1], r[i])
                  IN  FSqrt(FAdd(FMul(dc, dc), FMul(dr, dr)))]))

\* self.shortening = self.length0/self.length
ShorteningInverted(length0, length) == FDiv(length, length0)
Shortening(length0, length) == FDiv(length0, length)

BladeDeflection_solve_nonlinear ==
    /\ dpc = "set"
    /\ LET P == blade_defl_params
           theta == [i \in 1..Len(P.theta_str) |-> FAdd(P.theta_str[i], P.pitch)]
           delta == airfoilToBlade(P.dx, P.dy, P.dz, theta)
           precurve_str_out == [i \in 1..Len(P.precurve_str0) |->
                                   FAdd(P.precurve_str0[i], delta.x[i])]
           length0 == ArcLength(P.Rhub0, P.precurve_str0, P.r_str0)
           length == ArcLength(P.Rhub0, precurve_str_out, P.r_str0)
           shortening == Shortening(length0, length)
           delta_bladeLength == FMul(P.bladeLength0, FSub(shortening, One))
           delta_precurve_sub == Interp(P.r_sub_precurve0, P.r_str0, delta.x)
       IN  /\ blade_defl_self' =
                 [delta |-> delta, length0 |-> length0, length |-> length,
                  shortening |-> shortening, delta_bladeLength |-> delta_bladeLength,
                  delta_precurve_sub |-> delta_precurve_sub]
           /\ blade_defl_unknowns' =
                 [delta_bladeLength |-> delta_bladeLength,
                  delta_precurve_sub |-> delta_precurve_sub]
    /\ dpc' = "solved"
    /\ UNCHANGED blade_defl_params
    /\ UNCHANGED notDefl

\* the undeflected blade is one GeometrySpline makes (r_str[0] = Rhub, three
\* precurve control points from root to tip); the deflections are zero or
\* grow towards the tip, the twist and the pitch are 0 or 37 degrees
DeflectionInputs ==
    {LET r == [i \in 1..NSpline |-> Lit(3 + k * (i - 1) * i, 2)]
     IN  [dx |-> [i \in 1..NSpline |-> Lit(x * (i - 1) * (i - 1), 4)],
          dy |-> [i \in 1..NSpline |-> Lit(y * (i - 1), 2)],
          dz |-> [i \in 1..NSpline |-> Lit(z * (1 - i), 8)],
          pitch |-> Lit(-p, 1),
          theta_str |-> [i \in 1..NSpline |-> Lit(t, 1)],
          r_sub_precurve0 |-> <<r[1], FMul(Lit(1, 2), FAdd(r[1], r[NSpline])), r[NSpline]>>,
          Rhub0 |-> r[1],
          r_str0 |-> r,
          precurve_str0 |-> [i \in 1..NSpline |-> Lit(c * (i - 1) * (i - 1), 4)],
          bladeLength0 |-> FSub(r[NSpline], r[1])] :
        k \in {1, 2}, x \in {0, 1}, y \in {0, 1}, z \in {0, 1}, c \in {0, 1},
        t \in {0, 37}, p \in {0, 37}}

InitDefl ==
    /\ CoreIdle /\ WindIdle /\ SplineIdle /\ CurvatureIdle /\ DamageIdle /\ LateIdle
    /\ blade_defl_params \in DeflectionInputs
    /\ blade_defl_self = <<>>
    /\ blade_defl_unknowns =
          [delta_bladeLength |-> Zero, delta_precurve_sub |-> <<Zero, Zero, Zero>>]
    /\ dpc = "set"

NextDefl == BladeDeflection_solve_nonlinear

SpecDefl == InitDefl /\ [][NextDefl]_vars

DeflSolved == dpc = "solved"
NoDeflection ==
    \A i \in 1..NSpline :
        /\ blade_defl_params.dx[i] = Zero
        /\ blade_defl_params.dy[i] = Zero
        /\ blade_defl_params.dz[i] = Zero
DeformedPrecurve ==
    [i \in 1..NSpline |-> FAdd(blade_defl_params.precurve_str0[i], blade_defl_self.delta.x[i])]

DeflectedBladeEvaluated ==
    /\ DeflSolved
    /\ ~NoDeflection
    /\ blade_defl_self.shortening # One
    /\ blade_defl_unknowns.delta_bladeLength # Zero
    /\ \E j \in 1..3 : blade_defl_unknowns.delta_precurve_sub[j] # Zero

---------------------------------------------------------------------------
(* AirfoilShape: the surface coordinate transforms *)

\* AirfoilShape.s_to_11(s)
s_to_11_Unshifted(sLE, s) ==
    IF FGt(s, sLE) THEN FDiv(FSub(s, sLE), FSub(One, sLE))
    ELSE FDiv(s, sLE)
s_to_11(sLE, s) ==
    IF FGt(s, sLE) THEN FDiv(FSub(s, sLE), FSub(One, sLE))
    ELSE FAdd(Lit(-1, 1), FDiv(s, sLE))

\* AirfoilShape.s_to_01(s)
s_to_01(sLE, s) ==
    IF FGe(s, Zero) THEN FAdd(FMul(s, FSub(One, sLE)), sLE)
    ELSE FMul(FAdd(One, s), sLE)

AirfoilShape_s_to_11 ==
    /\ airfoil # <<>>
    /\ airfoil.frame = "01"
    /\ airfoil.calls < 2
    /\ airfoil' = [airfoil EXCEPT !.s = s_to_11(airfoil.sLE, airfoil.s),
                                  !.frame = "11", !.calls = @ + 1]
    /\ UNCHANGED notAirfoil

AirfoilShape_s_to_01 ==
    /\ airfoil # <<>>
    /\ airfoil.frame = "11"
    /\ airfoil.calls < 2
    /\ airfoil' = [airfoil EXCEPT !.s = s_to_01(airfoil.sLE, airfoil.s),
                                  !.frame = "01", !.calls = @ + 1]
    /\ UNCHANGED notAirfoil

\* leading-edge fractions strictly between 0 and 1
LeadingEdges == {Lit(k, SDen) : k \in 1..(SDen - 1)}
\* coordinates in [0, 1] (TE pressure side to TE suction side) and in [-1, 1]
Coordinates01 == {Lit(k, 2 * SDen) : k \in 0..(2 * SDen)}
Coordinates11 == {Lit(k, SDen) : k \in (-SDen)..SDen}

InitAirfoil ==
    /\ OnlyAirfoil
    /\ \E sLE \in LeadingEdges :
          \/ \E s \in Coordinates01 :
                airfoil = [sLE |-> sLE, s0 |-> s, s |-> s, frame |-> "01", calls |-> 0]
          \/ \E u \in Coordinates11 :
                airfoil = [sLE |-> sLE, s0 |-> u, s |-> u, frame |-> "11", calls |-> 0]

NextAirfoil ==
    \/ AirfoilShape_s_to_11
    \/ AirfoilShape_s_to_01

SpecAirfoil == InitAirfoil /\ [][NextAirfoil]_vars

\* |x - y| <= k * 2^-MantBits / w in exact arithmetic, for finite x, y and w > 0
WithinAbsolute(x, y, k, w) ==
    /\ IsFinite(x) /\ IsFinite(y)
    /\ Abs(x[1] * y[2] - y[1] * x[2]) * Pow2(MantBits) * w[1] <= k * x[2] * y[2] * w[2]

\* the narrower of the two sides of the leading edge, min(sLE, 1 - sLE)
NarrowSide(sLE) == IF FLe(sLE, FSub(One, sLE)) THEN sLE ELSE FSub(One, sLE)

Mapped01 == airfoil.calls = 1 /\ airfoil.frame = "11"
RoundTrip == airfoil.calls = 2

\* C21 (as the code has it): s_to_11 takes [0, 1] into [-1, 1] with 0 -> -1,
\* sLE -> 0 and 1 -> 1 exactly, and each transform undoes the other up to
\* rounding: the round trip returns the coordinate with an absolute error of
\* at most 4 * 2^-MantBits / min(sLE, 1 - sLE)
C21_InverseUpToRounding ==
    /\ Mapped01 =>
          /\ FGe(airfoil.s, Lit(-1, 1)) /\ FLe(airfoil.s, One)
          /\ airfoil.s0 = Zero => airfoil.s = Lit(-1, 1)
          /\ airfoil.s0 = airfoil.sLE => airfoil.s = Zero
          /\ airfoil.s0 = One => airfoil.s = One
    /\ RoundTrip => WithinAbsolute(airfoil.s, airfoil.s0, 4, NarrowSide(airfoil.sLE))

\* a coordinate has gone through both transforms and come back changed
C21_Witness ==
    /\ RoundTrip
    /\ airfoil.frame = "01"
    /\ airfoil.s # airfoil.s0
    /\ WithinAbsolute(airfoil.s, airfoil.s0, 4, NarrowSide(airfoil.sLE))

\* C21 as stated: s_to_01(s_to_11(s)) = s and s_to_11(s_to_01(u)) = u
C21_InverseExactly == RoundTrip => airfoil.s = airfoil.s0

---------------------------------------------------------------------------
(* ExtremeLoads *)

\* (X[0] + X[1]*(n-1)) / n with n = float(params['nBlades'])
BladeAverage(X, nBlades) ==
    LET n == Lit(nBlades, 1)
    IN  FDiv(FAdd(X[1], FMul(X[2], FSub(n, One))), n)

ExtremeLoads_solve_nonlinear ==
    /\ epc = "set"
    /\ extreme_self' =
          [T |-> extreme_params.T, Q |-> extreme_params.Q,
           T_extreme |-> BladeAverage(extreme_params.T, extreme_params.nBlades),
           Q_extreme |-> BladeAverage(extreme_params.Q, extreme_params.nBlades)]
    /\ extreme_unknowns' = [T_extreme |-> extreme_self'.T_extreme, Q_extreme |-> Zero]
    /\ epc' = "solved"
    /\ UNCHANGED extreme_params
    /\ UNCHANGED notExtreme

\* thrust and torque of the rotor with all blades at worst case (index 0) and
\* all blades feathered (index 1)
RotorLoads == {<<a, b>> : a \in {Lit(-1, 1), Lit(3, 2), Lit(4, 1)}, b \in {Zero, Lit(1, 2), Lit(-1, 4)}}
BladeCounts == {1, 2, 3}

InitExtreme ==
    /\ OnlyExtreme
    /\ \E T \in RotorLoads, Q \in RotorLoads, n \in BladeCounts :
          extreme_params = [T |-> T, Q |-> Q, nBlades |-> n]
    /\ extreme_self = <<>>
    /\ extreme_unknowns = [T_extreme |-> Zero, Q_extreme |-> Zero]
    /\ epc = "set"

NextExtreme == ExtremeLoads_solve_nonlinear

SpecExtreme == InitExtreme /\ [][NextExtreme]_vars

ExtremeSolved == epc = "solved"

\* C22: T_extreme = (T[0] + (n-1)*T[1])/n and Q_extreme = (Q[0] + (n-1)*Q[1])/n
C22_ExtremeLoadsAreBladeAverages ==
    ExtremeSolved =>
        /\ extreme_unknowns.T_extreme =
              FDiv(FAdd(extreme_params.T[1],
                        FMul(Lit(extreme_params.nBlades - 1, 1), extreme_params.T[2])),
                   Lit(extreme_params.nBlades, 1))
        /\ extreme_unknowns.Q_extreme =
              FDiv(FAdd(extreme_params.Q[1],
                        FMul(Lit(extreme_params.nBlades - 1, 1), extreme_params.Q[2])),
                   Lit(extreme_params.nBlades, 1))

\* three blades with a torque that does not average to zero: the thrust
\* output is the average, the torque output is 0.0
C22_Witness ==
    /\ ExtremeSolved
    /\ extreme_params.nBlades = 3
    /\ extreme_self.Q_extreme # Zero
    /\ extreme_unknowns.Q_extreme = Zero
    /\ extreme_unknowns.T_extreme = extreme_self.T_extreme
    /\ extreme_unknowns.T_extreme # Zero

---------------------------------------------------------------------------
(* OutputsAero and OutputsStructures: the pass-through components *)

\* OutputsAero.__init__: the declared parameters and outputs with their sizes
OutputsAero_params ==
    <<<<"AEP_in", 1>>,
      <<"V_in", NPower>>,
      <<"P_in", NPower>>,
      <<"Omega_in", 1>>,
      <<"ratedConditions:V_in", 1>>,
      <<"ratedConditions:Omega_in", 1>>,
      <<"ratedConditions:pitch_in", 1>>,
      <<"ratedConditions:T_in", 1>>,
      <<"ratedConditions:Q_in", 1>>,
      <<"hub_diameter_in", 1>>,
      <<"diameter_in", 1>>,
      <<"V_extreme_in", 1>>,
      <<"T_extreme_in", 1>>,
      <<"Q_extreme_in", 1>>,
      <<"Rtip_in", 1>>,
      <<"precurveTip_in", 1>>,
      <<"presweepTip_in", 1>>>>
OutputsAero_outputs ==
    <<<<"AEP", 1>>,
      <<"V", NPower>>,
      <<"P", NPower>>,
      <<"Omega", 1>>,
      <<"ratedConditions:V", 1>>,
      <<"ratedConditions:Omega", 1>>,
      <<"ratedConditions:pitch", 1>>,
      <<"ratedConditions:T", 1>>,
      <<"ratedConditions:Q", 1>>,
      <<"hub_diameter", 1>>,
      <<"diameter", 1>>,
      <<"V_extreme", 1>>,
      <<"T_extreme", 1>>,
      <<"Q_extreme", 1>>,
      <<"Rtip", 1>>,
      <<"precurveTip", 1>>,
      <<"presweepTip", 1>>>>
\* OutputsAero.solve_nonlinear: unknowns[X] = params[Y], as <<X, Y>>
OutputsAero_assignments ==
    <<<<"AEP", "AEP_in">>,
      <<"V", "V_in">>,
      <<"P", "P_in">>,
      <<"Omega", "Omega_in">>,
      <<"ratedConditions:V", "ratedConditions:V_in">>,
      <<"ratedConditions:Omega", "ratedConditions:Omega_in">>,
      <<"ratedConditions:pitch", "ratedConditions:pitch_in">>,
      <<"ratedConditions:T", "ratedConditions:T_in">>,
      <<"ratedConditions:Q", "ratedConditions:Q_in">>,
      <<"hub_diameter", "hub_diameter_in">>,
      <<"diameter", "diameter_in">>,
      <<"V_extreme", "V_extreme_in">>,
      <<"T_extreme", "T_extreme_in">>,
      <<"Q_extreme", "Q_extreme_in">>,
      <<"Rtip", "Rtip_in">>,
      <<"precurveTip", "precurveTip_in">>,
      <<"presweepTip", "presweepTip_in">>>>
\* OutputsAero.linearize: J[X, Y] = 1 or np.diag(np.ones(len(params[Y]))), as <<X, Y, kind>>
OutputsAero_partials ==
    <<<<"AEP", "AEP_in", "scalar">>,
      <<"V", "V_in", "diag">>,
      <<"P", "P_in", "diag">>,
      <<"Omega", "Omega_in", "scalar">>,
      <<"ratedConditions:V", "ratedConditions:V_in", "scalar">>,
      <<"ratedConditions:Omega", "ratedConditions:Omega_in", "scalar">>,
      <<"ratedConditions:pitch", "ratedConditions:pitch_in", "scalar">>,
      <<"ratedConditions:T", "ratedConditions:T_in", "scalar">>,
      <<"ratedConditions:Q", "ratedConditions:Q_in", "scalar">>,
      <<"hub_diameter", "hub_diameter_in", "scalar">>,
      <<"diameter", "diameter_in", "scalar">>,
      <<"V_extreme", "V_extreme_in", "scalar">>,
      <<"T_extreme", "T_extreme_in", "scalar">>,
      <<"Q_extreme", "Q_extreme_in", "scalar">>,
      <<"Rtip", "Rtip_in", "scalar">>,
      <<"precurveTip", "precurveTip_in", "scalar">>,
      <<"presweepTip", "T_presweepTip_in", "scalar">>>>

\* OutputsStructures.__init__: the declared parameters and outputs with their sizes
OutputsStructures_params ==
    <<<<"mass_one_blade_in", 1>>,
      <<"mass_all_blades_in", 1>>,
      <<"I_all_blades_in", 6>>,
      <<"freq_in", 5>>,
      <<"freq_curvefem_in", 5>>,
      <<"tip_deflection_in", 1>>,
      <<"strainU_spar_in", NStr>>,
      <<"strainL_spar_in", NStr>>,
      <<"strainU_te_in", NStr>>,
      <<"strainL_te_in", NStr>>,
      <<"eps_crit_spar_in", NStr>>,
      <<"eps_crit_te_in", NStr>>,
      <<"root_bending_moment_in", 1>>,
      <<"damageU_spar_in", NStr>>,
      <<"damageL_spar_in", NStr>>,
      <<"damageU_te_in", NStr>>,
      <<"damageL_te_in", NStr>>,
      <<"delta_bladeLength_out_in", 1>>,
      <<"delta_precurve_sub_out_in", 3>>,
      <<"Mxyz_0_in", 3>>,
      <<"Mxyz_120_in", 3>>,
      <<"Mxyz_240_in", 3>>,
      <<"Fxyz_0_in", 3>>,
      <<"Fxyz_120_in", 3>>,
      <<"Fxyz_240_in", 3>>,
      <<"TotalCone_in", 1>>,
      <<"Pitch_in", 1>>>>
OutputsStructures_outputs ==
    <<<<"mass_one_blade", 1>>,
      <<"mass_all_blades", 1>>,
      <<"I_all_blades", 6>>,
      <<"freq", 5>>,
      <<"freq_curvefem", 5>>,
      <<"tip_deflection", 1>>,
      <<"strainU_spar", NStr>>,
      <<"strainL_spar", NStr>>,
      <<"strainU_te", NStr>>,
      <<"strainL_te", NStr>>,
      <<"eps_crit_spar", NStr>>,
      <<"eps_crit_te", NStr>>,
      <<"root_bending_moment", 1>>,
      <<"damageU_spar", NStr>>,
      <<"damageL_spar", NStr>>,
      <<"damageU_te", NStr>>,
      <<"damageL_te", NStr>>,
      <<"delta_bladeLength_out", 1>>,
      <<"delta_precurve_sub_out", 3>>,
      <<"Mxyz_0", 3>>,
      <<"Mxyz_120", 3>>,
      <<"Mxyz_240", 3>>,
      <<"Fxyz_0", 3>>,
      <<"Fxyz_120", 3>>,
      <<"Fxyz_240", 3>>,
      <<"TotalCone", 1>>,
      <<"Pitch", 1>>>>
\* OutputsStructures.solve_nonlinear: unknowns[X] = params[Y], as <<X, Y>>
OutputsStructures_assignments ==
    <<<<"mass_one_blade", "mass_one_blade_in">>,
      <<"mass_all_blades", "mass_all_blades_in">>,
      <<"I_all_blades", "I_all_blades_in">>,
      <<"freq", "freq_in">>,
      <<"freq_curvefem", "freq_curvefem_in">>,
      <<"tip_deflection", "tip_deflection_in">>,
      <<"strainU_spar", "strainU_spar_in">>,
      <<"strainL_spar", "strainL_spar_in">>,
      <<"strainU_te", "strainU_te_in">>,
      <<"strainL_te", "strainL_te_in">>,
      <<"eps_crit_spar", "eps_crit_spar_in">>,
      <<"eps_crit_te", "eps_crit_te_in">>,
      <<"root_bending_moment", "root_bending_moment_in">>,
      <<"damageU_spar", "damageU_spar_in">>,
      <<"damageL_spar", "damageL_spar_in">>,
      <<"damageU_te", "damageU_te_in">>,
      <<"damageL_te", "damageL_te_in">>,
      <<"delta_bladeLength_out", "delta_bladeLength_out_in">>,
      <<"delta_precurve_sub_out", "delta_precurve_sub_out_in">>,
      <<"Mxyz_0", "Mxyz_0_in">>,
      <<"Mxyz_120", "Mxyz_120_in">>,
      <<"Mxyz_240", "Mxyz_240_in">>,
      <<"Fxyz_0", "Fxyz_0_in">>,
      <<"Fxyz_120", "Fxyz_120_in">>,
      <<"Fxyz_240", "Fxyz_240_in">>,
      <<"TotalCone", "TotalCone_in">>,
      <<"Pitch", "Pitch_in">>>>
\* OutputsStructures.linearize: J[X, Y] = 1 or np.diag(np.ones(len(params[Y]))), as <<X, Y, kind>>
OutputsStructures_partials ==
    <<<<"mass_one_blade", "mass_one_blade_in", "scalar">>,
      <<"mass_all_blades", "mass_all_blades_in", "scalar">>,
      <<"I_all_blades", "I_all_blades_in", "diag">>,
      <<"freq", "freq_in", "diag">>,
      <<"freq_curvefem", "freq_curvefem_in", "diag">>,
      <<"tip_deflection", "tip_deflection_in", "scalar">>,
      <<"strainU_spar", "strainU_spar_in", "diag">>,
      <<"strainL_spar", "strainL_spar_in", "diag">>,
      <<"strainU_te", "strainU_te_in", "diag">>,
      <<"strainL_te", "strainL_te_in", "diag">>,
      <<"eps_crit_spar", "eps_crit_spar_in", "diag">>,
      <<"eps_crit_te", "eps_crit_te_in", "diag">>,
      <<"root_bending_moment", "root_bending_moment_in", "scalar">>,
      <<"damageU_spar", "damageU_spar_in", "diag">>,
      <<"damageL_spar", "damageL_spar_in", "diag">>,
      <<"damageU_te", "damageU_te_in", "diag">>,
      <<"damageL_te", "damageL_te_in", "diag">>,
      <<"delta_bladeLength_out", "delta_bladeLength_out_in", "scalar">>,
      <<"delta_precurve_sub_out", "delta_precurve_sub_out_in", "diag">>,
      <<"Mxyz_0", "Mxyz_0_in", "scalar">>,
      <<"Mxyz_120", "Mxyz_120_in", "scalar">>,
      <<"Mxyz_240", "Mxyz_240_in", "scalar">>,
      <<"Fxyz_0", "Fxyz_0_in", "scalar">>,
      <<"Fxyz_120", "Fxyz_120_in", "scalar">>,
      <<"Fxyz_240", "Fxyz_240", "scalar">>,
      <<"TotalCone", "TotalCone_in", "scalar">>,
      <<"Pitch", "Pitch_in", "scalar">>>>

OutputComponents == {"OutputsAero", "OutputsStructures"}
DeclaredParams(comp) ==
    IF comp = "OutputsAero" THEN OutputsAero_params ELSE OutputsStructures_params
DeclaredOutputs(comp) ==
    IF comp = "OutputsAero" THEN OutputsAero_outputs ELSE OutputsStructures_outputs
Assignments(comp) ==
    IF comp = "OutputsAero" THEN OutputsAero_assignments ELSE OutputsStructures_assignments
Partials(comp) ==
    IF comp = "OutputsAero" THEN OutputsAero_partials ELSE OutputsStructures_partials

Names(decl) == {decl[k][1] : k \in 1..Len(decl)}
IndexOf(decl, name) == (CHOOSE k \in 1..Len(decl) : decl[k][1] = name)
Filled(decl, v) ==
    [name \in Names(decl) |-> [i \in 1..decl[IndexOf(decl, name)][2] |-> v]]

\* unknowns[X] = params[Y], one assignment after the other
RECURSIVE PassThrough(_, _, _, _)
PassThrough(assignments, P, U, k) ==
    IF k > Len(assignments) THEN U
    ELSE PassThrough(assignments, P,
                     [U EXCEPT ![assignments[k][1]] = P[assignments[k][2]]], k + 1)

Outputs_solve_nonlinear ==
    /\ opc = "set"
    /\ outputs_unknowns' =
          PassThrough(Assignments(outputs_comp), outputs_params, outputs_unknowns, 1)
    /\ opc' = "solved"
    /\ UNCHANGED <<outputs_comp, outputs_params, outputs_J>>
    /\ UNCHANGED notOutputs

\* J = {}; J[X, Y] = 1 or np.diag(np.ones(len(params[Y]))); return J
Jacobian_of(partials, P) ==
    {[of |-> partials[k][1], wrt |-> partials[k][2], kind |-> partials[k][3],
      n |-> IF partials[k][3] = "diag" THEN Len(P[partials[k][2]]) ELSE 1] :
        k \in 1..Len(partials)}

Outputs_linearize ==
    /\ opc = "solved"
    /\ outputs_J' = Jacobian_of(Partials(outputs_comp), outputs_params)
    /\ opc' = "linearized"
    /\ UNCHANGED <<outputs_comp, outputs_params, outputs_unknowns>>
    /\ UNCHANGED notOutputs

\* every input at zero but one, which is raised or lowered
InitOutputs ==
    /\ OnlyOutputs
    /\ outputs_comp \in OutputComponents
    /\ \E name \in Names(DeclaredParams(outputs_comp)), v \in {One, Lit(-3, 2), Lit(5, 4)} :
          outputs_params = [Filled(DeclaredParams(outputs_comp), Zero) EXCEPT
                               ![name] = [i \in 1..Len(@) |-> v]]
    /\ outputs_unknowns = Filled(DeclaredOutputs(outputs_comp), Zero)
    /\ outputs_J = <<>>
    /\ opc = "set"

NextOutputs ==
    \/ Outputs_solve_nonlinear
    \/ Outputs_linearize

SpecOutputs == InitOutputs /\ [][NextOutputs]_vars

OutputsSolved == opc \in {"solved", "linearized"}
OutputNames == Names(DeclaredOutputs(outputs_comp))
ParamNames == Names(DeclaredParams(outputs_comp))
PassedThrough ==
    \A X \in OutputNames :
        /\ (X \o "_in") \in ParamNames
        /\ outputs_unknowns[X] = outputs_params[X \o "_in"]
\* a partial that is 1, or the unit diagonal of the size of the variable
IsIdentity(e) ==
    \/ e.kind = "scalar"
    \/ e.kind = "diag" /\ e.n = Len(outputs_unknowns[e.of])

\* C23: every output X equals its input X_in after solve_nonlinear, and
\* linearize returns an identity partial under the key (X, X_in) for every
\* output X and no key that names a variable the component does not have
C23_PassThroughWithIdentityPartials ==
    /\ OutputsSolved => PassedThrough
    /\ opc = "linearized" =>
          /\ \A X \in OutputNames :
                \E e \in outputs_J : e.of = X /\ e.wrt = X \o "_in" /\ IsIdentity(e)
          /\ \A e \in outputs_J : e.of \in OutputNames /\ e.wrt \in ParamNames

\* OutputsStructures has passed a raised Fxyz_240_in through and linearized:
\* the partial of Fxyz_240 is filed under the output's own name
C23_Witness ==
    /\ opc = "linearized"
    /\ outputs_comp = "OutputsStructures"
    /\ PassedThrough
    /\ outputs_unknowns["Fxyz_240"] = <<One, One, One>>
    /\ \E e \in outputs_J : e.of = "Fxyz_240" /\ e.wrt = "Fxyz_240"
    /\ ~\E e \in outputs_J : e.of = "Fxyz_240" /\ e.wrt = "Fxyz_240_in"

\* the same for OutputsAero and presweepTip, filed under 'T_presweepTip_in'
OutputsAeroMisnamedKey ==
    /\ opc = "linearized"
    /\ outputs_comp = "OutputsAero"
    /\ PassedThrough
    /\ \E e \in outputs_J : e.of = "presweepTip" /\ e.wrt = "T_presweepTip_in"
    /\ ~\E e \in outputs_J : e.of = "presweepTip" /\ e.wrt = "presweepTip_in"

---------------------------------------------------------------------------
(* RotorSE: the connections of the blade-tip precurve *)

\* self.connect('spline.precurve_str', target, src_indices=[...]), in the
\* order of RotorSE.__init__, as <<target, source index>>
TipConnections(na, ns) ==
    <<<<"geom.precurveTip", na - 1>>,
      <<"analysis.precurveTip", ns - 1>>,
      <<"aero_rated.precurveTip", ns - 1>>,
      <<"aero_extrm.precurveTip", ns - 1>>,
      <<"aero_extrm_forces.precurveTip", ns - 1>>,
      <<"aero_defl_powercurve.precurveTip", ns - 1>>,
      <<"precurveTip_in", ns - 1>>,
      <<"aero_0.precurveTip", na - 1>>,
      <<"aero_120.precurveTip", na - 1>>,
      <<"aero_240.precurveTip", na - 1>>>>

TipTargets == {TipConnections(2, 2)[k][1] : k \in 1..Len(TipConnections(2, 2))}

\* the transfer of one connection: the target receives the source's element
\* at the source index; an index past the end of the source raises
RotorSE_transfer ==
    /\ tpc = "transfer"
    /\ transferred < Len(TipConnections(naero, nstr))
    /\ LET c == TipConnections(naero, nstr)[transferred + 1]
       IN  IF c[2] >= Len(precurve_str)
           THEN /\ tpc' = "IndexError"
                /\ UNCHANGED <<precurveTip, transferred>>
           ELSE /\ precurveTip' = [precurveTip EXCEPT ![c[1]] = At(precurve_str, c[2])]
                /\ transferred' = transferred + 1
                /\ UNCHANGED tpc
    /\ UNCHANGED <<naero, nstr, precurve_str>>
    /\ UNCHANGED notTip

\* unknowns['precurveTip'] = params['precurveTip_in'] of OutputsAero
OutputsAero_precurveTip ==
    /\ tpc = "transfer"
    /\ transferred = Len(TipConnections(naero, nstr))
    /\ precurveTip' = [precurveTip EXCEPT !["precurveTip"] = precurveTip["precurveTip_in"]]
    /\ tpc' = "done"
    /\ UNCHANGED <<naero, nstr, precurve_str, transferred>>
    /\ UNCHANGED notTip

\* station counts from 2 on, and blades whose precurve differs from station
\* to station
StationCounts == 2..(NStr + 2)
TipPrecurves(ns) ==
    {[i \in 1..ns |-> Lit(c * (i - 1) * (i + q), 4)] : c \in {1, -1, 3}, q \in {0, 1}}

InitTip ==
    /\ OnlyTip
    /\ naero \in StationCounts
    /\ nstr \in StationCounts
    /\ precurve_str \in TipPrecurves(nstr)
    /\ precurveTip = [t \in TipTargets \cup {"precurveTip"} |-> Zero]
    /\ transferred = 0
    /\ tpc = "transfer"

NextTip ==
    \/ RotorSE_transfer
    \/ OutputsAero_precurveTip

SpecTip == InitTip /\ [][NextTip]_vars

\* C24: once all connections are transferred and the outputs are written,
\* every consumer of the tip precurve holds element nstr-1 of
\* spline.precurve_str
C24_EveryConsumerGetsLastStation ==
    /\ tpc # "IndexError"
    /\ tpc = "done" =>
          \A t \in TipTargets \cup {"precurveTip"} :
              precurveTip[t] = At(precurve_str, nstr - 1)

\* with fewer aerodynamic than structural stations geom and the three
\* azimuth load cases hold the precurve of station naero-1, the others and
\* the precurveTip output that of the tip
C24_Witness ==
    /\ tpc = "done"
    /\ naero < nstr
    /\ precurveTip["geom.precurveTip"] = At(precurve_str, naero - 1)
    /\ precurveTip["aero_0.precurveTip"] = At(precurve_str, naero - 1)
    /\ precurveTip["geom.precurveTip"] # At(precurve_str, nstr - 1)
    /\ precurveTip["analysis.precurveTip"] = At(precurve_str, nstr - 1)
    /\ precurveTip["precurveTip"] = At(precurve_str, nstr - 1)

\* with equal station counts every consumer holds the tip precurve
EqualCountsGetTip ==
    (tpc = "done" /\ naero = nstr) =>
        \A t \in TipTargets \cup {"precurveTip"} : precurveTip[t] = At(precurve_str, nstr - 1)

---------------------------------------------------------------------------
(* RGrid: solve_nonlinear and linearize *)

RGrid_r_str(P) ==
    [i \in 1..Len(P.fraction) |-> Reconstruct(r_aug(P.r_aero), P.fraction[i], P.idxj[i])]

RGridJ_solve_nonlinear ==
    /\ jpc = "set"
    /\ rgrid_unknowns' = RGrid_r_str(rgrid_params)
    /\ jpc' = "solved"
    /\ UNCHANGED <<rgrid_params, rgrid_J, rgrid_held>>
    /\ UNCHANGED notRGridJ

\* J_sub = np.zeros((nstr, naero)); for each i: J_sub[i, j-1] = 1 - fraction[i]
\* if 0 < j < naero+1, J_sub[i, j] = fraction[i] if -1 < j < naero
J_sub_Swapped(P) ==
    LET n == Len(P.r_aero)
    IN  [i \in 1..Len(P.fraction) |->
           [k \in 1..n |->
              LET j == P.idxj[i]
              IN  IF j > -1 /\ j < n /\ k - 1 = j THEN FSub(One, P.fraction[i])
                  ELSE IF j > 0 /\ j < n + 1 /\ k - 1 = j - 1 THEN P.fraction[i]
                  ELSE Zero]]
J_sub(P) ==
    LET n == Len(P.r_aero)
    IN  [i \in 1..Len(P.fraction) |->
           [k \in 1..n |->
              LET j == P.idxj[i]
              IN  IF j > -1 /\ j < n /\ k - 1 = j THEN P.fraction[i]
                  ELSE IF j > 0 /\ j < n + 1 /\ k - 1 = j - 1 THEN FSub(One, P.fraction[i])
                  ELSE Zero]]

RGrid_linearize ==
    /\ jpc = "solved"
    /\ rgrid_J' = J_sub(rgrid_params)
    /\ jpc' = "linearized"
    /\ UNCHANGED <<rgrid_params, rgrid_unknowns, rgrid_held>>
    /\ UNCHANGED notRGridJ

\* the driver moves the aerodynamic grid and evaluates again
Problem_run_rgrid ==
    /\ jpc = "linearized"
    /\ rgrid_held = <<>>
    /\ \E r \in Grids(NAero) :
          /\ r # rgrid_params.r_aero
          /\ rgrid_params' = [rgrid_params EXCEPT !.r_aero = r]
    /\ rgrid_held' = [r_aero |-> rgrid_params.r_aero, r_str |-> rgrid_unknowns]
    /\ jpc' = "set"
    /\ UNCHANGED <<rgrid_unknowns, rgrid_J>>
    /\ UNCHANGED notRGridJ

\* fraction and idxj are those GridSetup computes for an initial pair of
\* grids (which it could bracket); r_aero starts as the initial grid
InitRGridJ ==
    /\ OnlyRGridJ
    /\ \E a \in Grids(NAero), t \in Grids(NStr) :
          LET aug == r_aug(a)
              js == [i \in 1..NStr |-> Bracket(aug, t[i], 1)]
          IN  /\ \A i \in 1..NStr : js[i] + 1 < Len(aug)
              /\ rgrid_params =
                    [r_aero |-> a, idxj |-> js,
                     fraction |-> [i \in 1..NStr |-> Fraction(aug, t[i], js[i])]]
    /\ rgrid_unknowns = [i \in 1..NStr |-> Zero]
    /\ rgrid_J = <<>>
    /\ rgrid_held = <<>>
    /\ jpc = "set"

NextRGridJ ==
    \/ RGridJ_solve_nonlinear
    \/ RGrid_linearize
    \/ Problem_run_rgrid

SpecRGridJ == InitRGridJ /\ [][NextRGridJ]_vars

\* the entries the derivative of r_str[i] has: 1 - fraction[i] at the
\* aerodynamic station that is the lower end aug[j] of the bracketing
\* interval, fraction[i] at the one that is its upper end aug[j+1], 0 elsewhere
\* (aug[0] = 0 and aug[naero+1] = 1 are no aerodynamic stations)
EntriesAsDerived ==
    \A i \in 1..NStr : \A k \in 1..NAero :
        LET j == rgrid_params.idxj[i]
        IN  rgrid_J[i][k] =
               IF k = j THEN FSub(One, rgrid_params.fraction[i])
               ELSE IF k = j + 1 THEN rgrid_params.fraction[i]
               ELSE Zero

Perturbed == jpc = "solved" /\ rgrid_held # <<>>
Perturbation == [k \in 1..NAero |-> FSub(rgrid_params.r_aero[k], rgrid_held.r_aero[k])]
Change(i) == FSub(rgrid_unknowns[i], rgrid_held.r_str[i])
Predicted(i) == npsum([k \in 1..NAero |-> FMul(rgrid_J[i][k], Perturbation[k])])
FiniteFractions == \A i \in 1..NStr : IsFinite(rgrid_params.fraction[i])

\* C25 (as the code has it): the entries of J are as derived, and for finite
\* fractions the change of r_str under a perturbation d of r_aero is J*d up
\* to rounding (an absolute error of at most 2 * 2^-MantBits)
C25_JacobianUpToRounding ==
    /\ jpc = "linearized" => EntriesAsDerived
    /\ (Perturbed /\ FiniteFractions) =>
          \A i \in 1..NStr : WithinAbsolute(Change(i), Predicted(i), 2, One)

\* a perturbed grid was evaluated, r_str moved, and J*d predicts the move
C25_Witness ==
    /\ Perturbed
    /\ FiniteFractions
    /\ \E i \in 1..NStr : Change(i) # Zero /\ Change(i) = Predicted(i)
    /\ \E i \in 1..NStr, k \in 1..NAero : rgrid_J[i][k] \notin {Zero, One}

\* C25 as stated: r_str(r_aero + d) - r_str(r_aero) = J*d for every d
C25_JacobianExact ==
    /\ jpc = "linearized" => EntriesAsDerived
    /\ Perturbed => \A i \in 1..NStr : Change(i) = Predicted(i)

\* with finite fractions alone the exact statement fails as well
LinearExactlyForFiniteFractions ==
    (Perturbed /\ FiniteFractions) => \A i \in 1..NStr : Change(i) = Predicted(i)

---------------------------------------------------------------------------
(* FASTLoadCases.post_process.post_AEP *)

\* Wind speeds are counted in quarters of a m/s: the speeds of the table
\* (4., 6., ..., 10.5, ..., 11.75, ..., 25.) are float64 numbers without
\* rounding, and post_AEP only sorts and compares them.  Powers are whole W.
TabulatedSpeeds == <<16, 24, 32, 36, 40, 42, 44, 46, 47, 48, 50, 52, 56, 76, 100>>

\* list(sorted(xs + [x])) for a sorted list xs
RECURSIVE InsertSorted(_, _)
InsertSorted(xs, x) ==
    IF xs = <<>> THEN <<x>>
    ELSE IF x < Head(xs) THEN <<x>> \o xs
    ELSE <<Head(xs)>> \o InsertSorted(Tail(xs), x)

\* U = sorted(table + [Vrated]); if V_R25 != 0.: U.append(V_R25); U = sorted(U)
WindSpeeds(P) ==
    LET U == InsertSorted(TabulatedSpeeds, P.Vrated)
    IN  IF P.V_R25 # 0 THEN InsertSorted(U, P.V_R25) ELSE U

Min(a, b) == IF a <= b THEN a ELSE b

\* P_below: the mean power of the cases zipped with U, where U <= Vrated,
\* none above the rated power; P_rated: the rated power for each U > Vrated
PowerTable(P, data, U) ==
    LET zipped == 1..Min(Len(data), Len(U))
        below == SelectSeq([k \in zipped |-> k], LAMBDA k : U[k] <= P.Vrated)
        P_below == [b \in 1..Len(below) |-> Min(data[below[b]], P.control_ratedPower)]
        U_below == SelectSeq(U, LAMBDA v : v <= P.Vrated)
        U_rated == SelectSeq(U, LAMBDA v : v > P.Vrated)
        P_rated == [k \in 1..Len(U_rated) |-> P.control_ratedPower]
    IN  IF Len(U_below) < Len(U) THEN P_below \o P_rated ELSE P_below

IsIncreasing(U) == \A k \in 1..(Len(U) - 1) : U[k] < U[k + 1]

\* PchipInterpolator(x, y) checks that x and y have the same length and that
\* x is strictly increasing, and raises ValueError otherwise
post_AEP ==
    /\ apc = "set"
    /\ aep_U' = WindSpeeds(aep_params)
    /\ aep_P_fast' = PowerTable(aep_params, aep_data, aep_U')
    /\ IF Len(aep_U') = Len(aep_P_fast') /\ IsIncreasing(aep_U')
       THEN /\ aep_unknowns' = [pchip |-> <<aep_U', aep_P_fast'>>]
            /\ apc' = "done"
       ELSE /\ apc' = "ValueError"
            /\ UNCHANGED aep_unknowns
    /\ UNCHANGED <<aep_params, aep_data>>
    /\ UNCHANGED notAEP

\* rated speeds between, on and above the tabulated ones; V_R25 unset (0.),
\* between or on tabulated speeds; one case per tabulated wind speed, the
\* power growing with the speed
RatedSpeeds == {41, 42, 45, 47, 104}
R25Speeds == {0, 30, 32, 43}
RatedPowers == {5, 9}
PowerGrowths == {1, 2, 3}

InitAEP ==
    /\ OnlyAEP
    /\ \E vr \in RatedSpeeds, v25 \in R25Speeds, rp \in RatedPowers, g \in PowerGrowths :
          /\ aep_params = [Vrated |-> vr, V_R25 |-> v25, control_ratedPower |-> rp]
          /\ aep_data = [k \in 1..Len(WindSpeeds(aep_params)) |-> (g * k) \div 2]
    /\ aep_U = <<>>
    /\ aep_P_fast = <<>>
    /\ aep_unknowns = <<>>
    /\ apc = "set"

NextAEP == post_AEP

SpecAEP == InitAEP /\ [][NextAEP]_vars

AEPRan == apc \in {"done", "ValueError"}

\* C28: the table post_AEP hands to the interpolation has strictly
\* increasing wind speeds and one power value per wind speed
C28_PowerTableWellFormed ==
    AEPRan => IsIncreasing(aep_U) /\ Len(aep_P_fast) = Len(aep_U)

\* a rated speed that is one of the tabulated ones (10.5 m/s) is in U twice,
\* and the interpolation raises
C28_Witness ==
    /\ apc = "ValueError"
    /\ aep_params.Vrated = 42
    /\ aep_params.V_R25 = 0
    /\ \E k \in 1..(Len(aep_U) - 1) : aep_U[k] = 42 /\ aep_U[k + 1] = 42
    /\ Len(aep_P_fast) = Len(aep_U)

\* with a rated speed and a V_R25 that are no tabulated speeds and differ, the
\* table is well formed
DistinctSpeedsWellFormed ==
    (AEPRan /\ \A k \in 1..Len(TabulatedSpeeds) :
                   /\ TabulatedSpeeds[k] # aep_params.Vrated
                   /\ TabulatedSpeeds[k] # aep_params.V_R25)
        => (apc = "done" /\ IsIncreasing(aep_U) /\ Len(aep_P_fast) = Len(aep_U))

(***************************************************************************)
(* FASTLoadCases.post_process (rotor_fast.py): the loop over case_keys and *)
(* the post-processing of the gust, extreme and turbulent cases.  A time   *)
(* series is the list of its samples; data[var][i] of the code is          *)
(* data[i + 1][var] here, and the channels of the three blades and of the  *)
(* output nodes are tuples (TipDxc[2] for 'TipDxc2', Fx[1] for 'B1N1Fx').  *)
(* Time is in whole seconds.  Channels that are only copied or compared    *)
(* are integers, the ones that are computed with are floats.               *)
(***************************************************************************)

\* the number of spanwise output nodes (nine in the code)
NOut == 2

Max(a, b) == IF a >= b THEN a ELSE b

\* xs[s:e] of Python for s >= 0, e counted from the end when negative
Slice(xs, s, e) ==
    LET stop == IF e < 0 THEN Max(Len(xs) + e, 0) ELSE Min(e, Len(xs))
    IN  SubSeq(xs, s + 1, stop)

\* list(xs).index(x): the first position of x, from 0, and Len(xs) where
\* the code raises ValueError because x is not in the list
RECURSIVE list_index(_, _, _)
list_index(xs, x, k) ==
    IF k > Len(xs) THEN Len(xs)
    ELSE IF xs[k] = x THEN k - 1
    ELSE list_index(xs, x, k + 1)

\* np.argmax(xs) of floats: the first position, from 0, of a largest entry
RECURSIVE argmax(_, _, _)
argmax(xs, k, best) ==
    IF k > Len(xs) THEN best - 1
    ELSE argmax(xs, k + 1, IF FGt(xs[k], xs[best]) THEN k ELSE best)

\* np.argmax(xs) of integers
RECURSIVE IntArgmax(_, _, _)
IntArgmax(xs, k, best) ==
    IF k > Len(xs) THEN best - 1
    ELSE IntArgmax(xs, k + 1, IF xs[k] > xs[best] THEN k ELSE best)

\* t_s, t_e, idx_s and idx_e of post_gust and post_extreme: the window from
\* 30 s to 90 s for the case type own, the whole series but for its last
\* sample for the others
AnalysisWindow(data, case_type, own) ==
    IF case_type = own
    THEN LET Time == [k \in 1..Len(data) |-> data[k].Time]
             t_s == Min(Max(Time[1], 30), Time[Len(Time) - 1])
             t_e == Min(Time[Len(Time)], 90)
         IN  [idx_s |-> list_index(Time, t_s, 1), idx_e |-> list_index(Time, t_e, 1)]
    ELSE [idx_s |-> 0, idx_e |-> -1]

\* index() raises ValueError for a time that is no sample, max() and
\* np.argmax raise it for a window without samples
WindowRaises(data, w) ==
    \/ w.idx_s = Len(data)
    \/ w.idx_e = Len(data)
    \/ Slice(data, w.idx_s, w.idx_e) = <<>>

Blades == 1..3

Column(rows, var, b) == [k \in 1..Len(rows) |-> rows[k][var][b]]

\* max(xs) of a non-empty list of integers
IntMax(xs) == xs[IntArgmax(xs, 1, 1) + 1]

\* np.sqrt(Mx**2. + My**2. + Mz**2.) of blade b in every sample of rows
root_bending_moments(rows, b) ==
    [k \in 1..Len(rows) |->
        FSqrt(FAdd(FAdd(FMul(rows[k].RootMxc[b], rows[k].RootMxc[b]),
                        FMul(rows[k].RootMyc[b], rows[k].RootMyc[b])),
                   FMul(rows[k].RootMzc[b], rows[k].RootMzc[b])))]

Kilo == Lit(1000, 1)

\* post_gust(data, case_type): what it writes to unknowns, or the exception
post_gust(data, case_type) ==
    LET w == AnalysisWindow(data, case_type, 2) IN
    IF WindowRaises(data, w) THEN [raised |-> "ValueError", out |-> <<>>]
    ELSE
    LET idx_s == w.idx_s
        rows == Slice(data, idx_s, w.idx_e)
        blade_max_tip == IntArgmax([b \in Blades |-> IntMax(Column(rows, "TipDxc", b))],
                                   1, 1) + 1
        idx_max_tip == IntArgmax(Column(rows, "TipDxc", blade_max_tip), 1, 1)
        tip == data[idx_s + idx_max_tip + 1]
        moments == [b \in Blades |-> root_bending_moments(rows, b)]
        root_bending_moment_idxmax == [b \in Blades |-> argmax(moments[b], 1, 1)]
        root_bending_moment_max ==
            [b \in Blades |-> moments[b][root_bending_moment_idxmax[b] + 1]]
        blade == argmax(root_bending_moment_max, 1, 1) + 1
        idx == root_bending_moment_idxmax[blade]
        root == data[idx_s + idx + 1]
    IN  [raised |-> "",
         out |-> [dx_defl |-> tip.TipDxc[blade_max_tip],
                  dy_defl |-> tip.TipDyc[blade_max_tip],
                  dz_defl |-> tip.TipDzc[blade_max_tip],
                  root_bending_moment |-> FMul(root_bending_moment_max[blade], Kilo),
                  Mxyz |-> <<FMul(root.RootMxc[blade], Kilo),
                             FMul(root.RootMyc[blade], Kilo),
                             FMul(root.RootMzc[blade], Kilo)>>]]

\* np.sqrt(Fx_sum**2. + Fy_sum**2.) of every sample of rows, the sums being
\* np.trapz over R_out
strain(rows, R_out) ==
    [k \in 1..Len(rows) |->
        LET Fx_sum == trapz(rows[k].Fx, R_out, Len(R_out) - 1)
            Fy_sum == trapz(rows[k].Fy, R_out, Len(R_out) - 1)
        IN  FSqrt(FAdd(FMul(Fx_sum, Fx_sum), FMul(Fy_sum, Fy_sum)))]

\* the sample post_extreme reads its outputs from: idx_max_strain is a
\* position in the window and indexes the whole series
ReportedSampleShifted(data, idx_s, idx_max_strain) == data[idx_s + idx_max_strain + 1]

ReportedSample(data, idx_s, idx_max_strain) == data[idx_max_strain + 1]

\* post_extreme(data, case_type); loads_Px and loads_Py are the values at
\* the output nodes R_out, which the splines interpolate
post_extreme(data, case_type, R_out) ==
    LET w == AnalysisWindow(data, case_type, 3) IN
    IF WindowRaises(data, w) THEN [raised |-> "ValueError", out |-> <<>>]
    ELSE
    LET rows == Slice(data, w.idx_s, w.idx_e)
        idx_max_strain == argmax(strain(rows, R_out), 1, 1)
        at == ReportedSample(data, w.idx_s, idx_max_strain)
    IN  [raised |-> "",
         out |-> [loads_Px |-> at.Fx,
                  loads_Py |-> [n \in 1..Len(at.Fy) |-> FMul(at.Fy[n], FNeg(One))],
                  loads_Pz |-> [n \in 1..Len(at.Fx) |-> Zero],
                  loads_Omega |-> at.RotSpeed,
                  loads_pitch |-> at.BldPitch1,
                  loads_azimuth |-> at.Azimuth]]

\* the most cases a turbulent load case is run with (one per seed)
NTurb == 2

Repeat(x, n) == [k \in 1..n |-> x]

\* case_keys of DLC_creation: [1]*len, [2]*len, [3]*len and [4]*len of the
\* cases of the power curve, the gust, the extreme and the turbulent load
\* case, appended in this order; a load case that is None adds nothing
DLC_creation(n) == Repeat(1, n[1]) \o Repeat(2, n[2]) \o Repeat(3, n[3]) \o Repeat(4, n[4])

\* [i for i, casej in enumerate(case_keys) if casej == key], from 0
Positions(keys, key) ==
    LET at == SelectSeq([k \in 1..Len(keys) |-> k], LAMBDA k : keys[k] = key)
    IN  [j \in 1..Len(at) |-> at[j] - 1]

idx_AEP_First(keys) == SubSeq(Positions(keys, 1), 1, 1)

idx_AEP(keys) == Positions(keys, 1)

RECURSIVE IntSum(_)
IntSum(xs) == IF xs = <<>> THEN 0 ELSE Head(xs) + IntSum(Tail(xs))

\* np.mean(datai['GenPwr'])*1000., for a power that is the same in every
\* sample
MeanPower(datai) ==
    (IntSum([k \in 1..Len(datai) |-> datai[k].GenPwr]) \div Len(datai)) * 1000

\* post_AEP(data) as the loop calls it
post_AEP_of(P, data) ==
    LET U == WindSpeeds(P)
        P_fast == PowerTable(P, [c \in 1..Len(data) |-> MeanPower(data[c])], U)
    IN  IF Len(U) = Len(P_fast) /\ IsIncreasing(U)
        THEN [raised |-> "", out |-> [P_out |-> <<U, P_fast>>]]
        ELSE [raised |-> "ValueError", out |-> <<>>]

\* unknowns after the assignments out
Written(unknowns, out) ==
    [x \in DOMAIN unknowns \cup DOMAIN out |->
        IF x \in DOMAIN out THEN out[x] ELSE unknowns[x]]

Call(fn, case_type, data, r) ==
    [fn |-> fn, case_type |-> case_type, data |-> data, raised |-> r.raised, out |-> r.out]

InLoop ==
    /\ lpc = "loop"
    /\ post_i < Len(case_keys)
    /\ ~(Gust_Outputs /\ Extreme_Outputs)

casei == case_keys[post_i + 1]

\* if Gust_Outputs and Extreme_Outputs: break
post_process_break ==
    /\ lpc = "loop"
    /\ post_i < Len(case_keys)
    /\ Gust_Outputs /\ Extreme_Outputs
    /\ lpc' = "done"
    /\ UNCHANGED <<post_params, case_keys, FAST_Output, post_i, Gust_Outputs,
                   Extreme_Outputs, AEP_Outputs, post_calls, post_unknowns>>
    /\ UNCHANGED notPost

\* the for loop has taken every entry of case_keys
post_process_end ==
    /\ lpc = "loop"
    /\ post_i = Len(case_keys)
    /\ lpc' = "done"
    /\ UNCHANGED <<post_params, case_keys, FAST_Output, post_i, Gust_Outputs,
                   Extreme_Outputs, AEP_Outputs, post_calls, post_unknowns>>
    /\ UNCHANGED notPost

\* one call of a post-processing function inside the loop body: the call
\* is logged, its assignments are made, and its exception ends the loop
Called(call) ==
    /\ post_calls' = Append(post_calls, call)
    /\ post_unknowns' = Written(post_unknowns, call.out)
    /\ lpc' = IF call.raised = "" THEN "loop" ELSE call.raised

\* if casei == 1
post_process_power_curve ==
    /\ InLoop
    /\ casei = 1
    /\ IF AEP_Outputs
       THEN UNCHANGED <<post_calls, post_unknowns, lpc, AEP_Outputs>>
       ELSE LET idx == idx_AEP(case_keys)
                data == [j \in 1..Len(idx) |-> FAST_Output[idx[j] + 1]]
            IN  \E call \in {Call("post_AEP", 1, data, post_AEP_of(post_params, data))} :
                    /\ Called(call)
                    /\ AEP_Outputs' = (call.raised = "")
    /\ post_i' = post_i + 1
    /\ UNCHANGED <<post_params, case_keys, FAST_Output, Gust_Outputs, Extreme_Outputs>>
    /\ UNCHANGED notPost

\* if casei in [2]
post_process_gust ==
    /\ InLoop
    /\ casei = 2
    /\ LET idx_gust == list_index(case_keys, casei, 1)
           data == FAST_Output[idx_gust + 1]
       IN  \E call \in {Call("post_gust", casei, data, post_gust(data, casei))} :
               /\ Called(call)
               /\ Gust_Outputs' = (call.raised = "")
    /\ post_i' = post_i + 1
    /\ UNCHANGED <<post_params, case_keys, FAST_Output, Extreme_Outputs, AEP_Outputs>>
    /\ UNCHANGED notPost

\* if casei in [3]
post_process_extreme ==
    /\ InLoop
    /\ casei = 3
    /\ LET idx_extreme == list_index(case_keys, casei, 1)
           data == FAST_Output[idx_extreme + 1]
       IN  \E call \in {Call("post_extreme", casei, data,
                              post_extreme(data, casei, post_params.R_out))} :
               /\ Called(call)
               /\ Extreme_Outputs' = (call.raised = "")
    /\ post_i' = post_i + 1
    /\ UNCHANGED <<post_params, case_keys, FAST_Output, Gust_Outputs, AEP_Outputs>>
    /\ UNCHANGED notPost

RECURSIVE Concatenated(_)
Concatenated(series) ==
    IF series = <<>> THEN <<>> ELSE Head(series) \o Concatenated(Tail(series))

\* for i, fast_out_idx in enumerate(idx_turb): idx_turb[fast_out_idx], the
\* position in FAST_Output the loop reads; Len(FAST_Output) and more stand
\* for the IndexError of a position outside idx_turb
TurbulentPicks(idx_turb, n) ==
    [i \in 1..Len(idx_turb) |->
        IF idx_turb[i] < Len(idx_turb) THEN idx_turb[idx_turb[i] + 1] ELSE n]

\* if casei in [4]
post_process_turbulent ==
    /\ InLoop
    /\ casei = 4
    /\ LET idx_turb == Positions(case_keys, 4)
           picks == TurbulentPicks(idx_turb, Len(FAST_Output))
       IN  IF \E i \in 1..Len(picks) : picks[i] >= Len(FAST_Output)
           THEN /\ lpc' = "IndexError"
                /\ UNCHANGED <<post_calls, post_unknowns, Gust_Outputs, Extreme_Outputs>>
           ELSE \E data_concat \in
                       {Concatenated([i \in 1..Len(picks) |-> FAST_Output[picks[i] + 1]])} :
                \E gust \in {Call("post_gust", casei, data_concat,
                                   post_gust(data_concat, casei))} :
                    IF gust.raised # ""
                    THEN /\ Called(gust)
                         /\ UNCHANGED <<Gust_Outputs, Extreme_Outputs>>
                    ELSE \E extreme \in
                             {Call("post_extreme", casei, data_concat,
                                   post_extreme(data_concat, casei, post_params.R_out))} :
                         /\ post_calls' = post_calls \o <<gust, extreme>>
                         /\ post_unknowns' =
                                Written(Written(post_unknowns, gust.out), extreme.out)
                         /\ lpc' = IF extreme.raised = "" THEN "loop" ELSE extreme.raised
                         /\ Gust_Outputs' = (extreme.raised = "" \/ Gust_Outputs)
                         /\ Extreme_Outputs' = (extreme.raised = "" \/ Extreme_Outputs)
    /\ post_i' = post_i + 1
    /\ UNCHANGED <<post_params, case_keys, FAST_Output, AEP_Outputs>>
    /\ UNCHANGED notPost

\* the time series of the case at position c of the case list: n samples
\* from the time start on, the tip deflection, the root moment and the blade
\* force largest in sample peak; every sample can be told from every other
\* by its rotor speed
Series(c, shape) ==
    [k \in 1..shape.n |->
        LET hot == (k = shape.peak) IN
        [Time |-> shape.start + (k - 1) * shape.step,
         GenPwr |-> c \div 2,
         TipDxc |-> <<1, IF hot THEN 5 ELSE 2, 3>>,
         TipDyc |-> <<10 * k + 1, 10 * k + 2, 10 * k + 3>>,
         TipDzc |-> <<c, c, c>>,
         RootMxc |-> <<One, One, IF hot THEN Lit(4, 1) ELSE One>>,
         RootMyc |-> <<One, Lit(2, 1), Lit(3, 1)>>,
         RootMzc |-> <<Zero, Zero, Lit(c, 1)>>,
         Fx |-> [n \in 1..NOut |-> IF hot THEN Lit(3, 1) ELSE One],
         Fy |-> [n \in 1..NOut |-> Lit(n, 1)],
         RotSpeed |-> 100 * c + k,
         BldPitch1 |-> k,
         Azimuth |-> c]]

\* series that begin before, inside and at the start of the window from 30 s
\* to 90 s, one sample every 30 s
Shapes ==
    {[start |-> 0, step |-> 30, n |-> 5, peak |-> p] : p \in {2, 3}}
        \cup {[start |-> 30, step |-> 30, n |-> 3, peak |-> p] : p \in {1, 2}}
        \cup {[start |-> 15, step |-> 30, n |-> 4, peak |-> 2]}

InitPost ==
    /\ OnlyPost
    /\ \E vr \in {41, 42}, pw \in BOOLEAN, n2 \in 0..1, n3 \in 0..1, n4 \in 0..NTurb,
          shape \in Shapes :
          /\ post_params = [Vrated |-> vr, V_R25 |-> 0, control_ratedPower |-> 5000,
                            R_out |-> [n \in 1..NOut |-> Lit(n - 1, 1)]]
          /\ case_keys = DLC_creation(<<IF pw THEN Len(WindSpeeds(post_params)) ELSE 0,
                                        n2, n3, n4>>)
          /\ FAST_Output = [c \in 1..Len(case_keys) |-> Series(c, shape)]
    /\ post_i = 0
    /\ Gust_Outputs = FALSE
    /\ Extreme_Outputs = FALSE
    /\ AEP_Outputs = FALSE
    /\ post_calls = <<>>
    /\ post_unknowns = <<>>
    /\ lpc = "loop"

NextPost ==
    \/ post_process_break
    \/ post_process_end
    \/ post_process_power_curve
    \/ post_process_gust
    \/ post_process_extreme
    \/ post_process_turbulent

SpecPost == InitPost /\ [][NextPost]_vars

\* a step of the loop: every step of NextPost takes the next entry of
\* case_keys or leaves the loop, and one is possible as long as the loop
\* is not left
LoopAdvances ==
    /\ lpc = "loop"
    /\ lpc' \in {"loop", "done", "IndexError", "ValueError"}
    /\ post_i' \in {post_i, post_i + 1}
    /\ (post_i' = post_i + 1 \/ lpc' # "loop")

\* the loop is a sequential program: it takes its next step
SpecPostFair == SpecPost /\ WF_<<post_i, lpc>>(LoopAdvances)

CallsOf(fn) == SelectSeq(post_calls, LAMBDA call : call.fn = fn)

SeriesOf(key) ==
    LET at == Positions(case_keys, key)
    IN  [j \in 1..Len(at) |-> FAST_Output[at[j] + 1]]

\* the time series of the turbulent cases, one after the other in case order
TurbulentSeries == Concatenated(SeriesOf(4))

\* the last call of fn had the turbulent series as its data, and its
\* outputs are the ones in unknowns
FromTurbulent(fn) ==
    LET calls == CallsOf(fn) IN
    /\ Len(calls) > 0
    /\ calls[Len(calls)].case_type = 4
    /\ calls[Len(calls)].data = TurbulentSeries
    /\ \A x \in DOMAIN calls[Len(calls)].out : post_unknowns[x] = calls[Len(calls)].out[x]

LoopLeft == lpc \in {"done", "IndexError"}

\* C26: whenever the case list holds turbulent cases, the loop ends with the
\* gust and the extreme outputs computed from the concatenation of the time
\* series of all turbulent cases and only those, in case order
C26_TurbulentCasesConcatenated ==
    (LoopLeft /\ Len(Positions(case_keys, 4)) > 0)
        => (lpc = "done" /\ FromTurbulent("post_gust") /\ FromTurbulent("post_extreme"))

\* two turbulent cases after a gust case: the loop reads idx_turb at the
\* positions 1 and 2, and the second is outside of it
C26_Witness ==
    /\ case_keys = <<2, 4, 4>>
    /\ lpc = "IndexError"
    /\ post_i = 2
    /\ ~FromTurbulent("post_gust")

\* turbulent cases after a gust and an extreme case are never read: the
\* loop stops before them
TurbulentCasesSkipped ==
    /\ case_keys = <<2, 3, 4, 4>>
    /\ lpc = "done"
    /\ post_i = 2
    /\ \A k \in 1..Len(post_calls) : post_calls[k].case_type # 4

\* with nothing but turbulent cases in the case list, idx_turb[i] = i and
\* the concatenation is the one of all turbulent cases
OnlyTurbulentConcatenated ==
    (lpc = "done" /\ Len(case_keys) > 0 /\ \A k \in 1..Len(case_keys) : case_keys[k] = 4)
        => (FromTurbulent("post_gust") /\ FromTurbulent("post_extreme"))

\* the sample of the largest integrated force inside the window of a call
\* of post_extreme
WindowMaximum(call) ==
    LET w == AnalysisWindow(call.data, call.case_type, 3)
        rows == Slice(call.data, w.idx_s, w.idx_e)
    IN  ReportedSampleShifted(call.data, w.idx_s,
                              argmax(strain(rows, post_params.R_out), 1, 1))

ReportsSample(call, at) ==
    /\ call.out.loads_Px = at.Fx
    /\ call.out.loads_Py = [n \in 1..Len(at.Fy) |-> FNeg(at.Fy[n])]
    /\ call.out.loads_Omega = at.RotSpeed
    /\ call.out.loads_pitch = at.BldPitch1
    /\ call.out.loads_azimuth = at.Azimuth

ExtremeCalls == SelectSeq(CallsOf("post_extreme"), LAMBDA call : call.raised = "")

\* C27: post_extreme reports the loads, the rotor speed, the pitch and the
\* azimuth of the sample idx_s + argmax, the one inside the window at which
\* the integrated force is largest
C27_ExtremeReportsWindowMaximum ==
    \A k \in 1..Len(ExtremeCalls) : ReportsSample(ExtremeCalls[k], WindowMaximum(ExtremeCalls[k]))

\* an extreme case whose series begins at 0 s: the window begins at sample 1
\* (30 s), the force is largest at sample 2, and the outputs are the ones of
\* sample 1
C27_Witness ==
    \E k \in 1..Len(ExtremeCalls) :
        LET call == ExtremeCalls[k] IN
        /\ call.case_type = 3
        /\ AnalysisWindow(call.data, 3, 3).idx_s = 1
        /\ WindowMaximum(call) = call.data[3]
        /\ ReportsSample(call, call.data[2])
        /\ ~ReportsSample(call, call.data[3])

\* where the window begins at sample 0, as it does for the turbulent cases,
\* the reported sample is the one of the largest force
ExtremeFromStartReportsMaximum ==
    \A k \in 1..Len(ExtremeCalls) :
        AnalysisWindow(ExtremeCalls[k].data, ExtremeCalls[k].case_type, 3).idx_s = 0
            => ReportsSample(ExtremeCalls[k], WindowMaximum(ExtremeCalls[k]))

\* post_gust reports the tip deflection at idx_s + argmax: the largest
\* out-of-plane deflection inside the window, for every case type
GustReportsWindowMaximum ==
    \A k \in 1..Len(post_calls) :
        LET call == post_calls[k]
            w == AnalysisWindow(call.data, call.case_type, 2)
            rows == Slice(call.data, w.idx_s, w.idx_e)
        IN  (call.fn = "post_gust" /\ call.raised = "")
                => /\ \A j \in 1..Len(rows), b \in Blades : call.out.dx_defl >= rows[j].TipDxc[b]
                   /\ \E j \in 1..Len(rows), b \in Blades :
                         /\ call.out.dx_defl = rows[j].TipDxc[b]
                         /\ call.out.dy_defl = rows[j].TipDyc[b]

PowerCurveCases == Len(Positions(case_keys, 1)) > 0

\* the power-curve post-processing has run at most once, over the series of
\* all power-curve cases and no other; it has run once the loop has both
\* the gust and the extreme outputs, and once the loop is left
PowerCurveOnce ==
    LET calls == CallsOf("post_AEP") IN
    /\ Len(calls) <= 1
    /\ \A k \in 1..Len(calls) : calls[k].data = SeriesOf(1)
    /\ (PowerCurveCases /\ ((Gust_Outputs /\ Extreme_Outputs) \/ lpc # "loop"))
           => Len(calls) = 1

\* C29: for the case lists of DLC_creation the loop of post_process
\* terminates, and it runs the power-curve post-processing exactly once,
\* over all and only the power-curve cases, before it can stop early on
\* having both the gust and the extreme outputs
C29_LoopTerminatesPowerCurveOnce == <>(lpc # "loop") /\ []PowerCurveOnce

\* a case list with cases of all four kinds: the power curve is processed
\* once from its 16 cases, and the loop stops early at the turbulent cases
C29_Witness ==
    /\ lpc = "done"
    /\ post_i < Len(case_keys)
    /\ Gust_Outputs /\ Extreme_Outputs /\ AEP_Outputs
    /\ Len(CallsOf("post_AEP")) = 1
    /\ Len(CallsOf("post_AEP")[1].data) = Len(WindSpeeds(post_params))
    /\ case_keys[Len(case_keys)] = 4

(***************************************************************************)
(* FASTLoadCases.solve_nonlinear (rotor_fast.py).  The dictionaries of     *)
(* FAST inputs are objects that params and unknowns refer to: fast_heap    *)
(* holds them, and fst_vt_in and fst_vt_out are positions in it.  FAST and *)
(* the file system are outside of the program: what post_process raises    *)
(* (see SpecPost) and whether the run directory can be deleted are         *)
(* choices of the step.                                                    *)
(***************************************************************************)

\* fst_vt = params['fst_vt_in'] without a copy: the same object
copy_reference(objects, ref) == [objects |-> objects, ref |-> ref]

\* copy.deepcopy: a new object with the same content
copy_deepcopy(objects, ref) ==
    [objects |-> Append(objects, objects[ref]), ref |-> Len(objects) + 1]

\* the assignments of update_FAST_model to the dictionary fst_vt
UpdatedModel(fst_vt, params) ==
    [fst_vt EXCEPT !.Fst.OutFileFmt = 2,
                   !.ElastoDyn.TipRad = params.Rtip,
                   !.ElastoDyn.HubRad = params.Rhub,
                   !.ElastoDyn.TowerHt = params.hubHt,
                   !.InflowWind.RefHt = params.hubHt,
                   !.InflowWind.PLexp = params.shearExp,
                   !.AeroDyn15.AirDens = params.rho,
                   !.AeroDyn15.KinVisc = params.mu]

\* update_FAST_model(params): the objects after it and the reference it returns
update_FAST_model(objects, params) ==
    LET copy == copy_deepcopy(objects, params.fst_vt_in)
    IN  [objects |-> [copy.objects EXCEPT ![copy.ref] = UpdatedModel(@, params)],
         fst_vt |-> copy.ref]

\* the outputs post_process assigns (see SpecPost for their values)
PostProcessed == {"dx_defl", "loads_Px", "P_out"}

\* solve_nonlinear up to the assignment of fst_vt_out: the calls made, the
\* run directory and unknowns after them
Dispatch(level, unknowns, dir) ==
    IF level = 2
    THEN [trace |-> <<"update_FAST_model", "DLC_creation", "run_FAST", "post_process">>,
          dir |-> "outputs",
          unknowns |-> [x \in DOMAIN unknowns |->
                           IF x \in PostProcessed THEN "post_process" ELSE unknowns[x]]]
    ELSE IF level = 1
    THEN [trace |-> <<"update_FAST_model", "write_FAST">>,
          dir |-> "inputs",
          unknowns |-> [unknowns EXCEPT !.FASTpref_updated = "FAST_runDirectory",
                                        !.model_updated = TRUE]]
    ELSE [trace |-> <<"update_FAST_model">>, dir |-> dir, unknowns |-> unknowns]

\* solve_nonlinear(params, unknowns, resids)
FASTLoadCases_solve_nonlinear ==
    /\ fast_pc = "set"
    /\ \E raised \in {"", "IndexError", "ValueError"}, deleted \in BOOLEAN :
          LET level == fast_self.Analysis_Level
              model == update_FAST_model(fast_heap, fast_params)
              step == Dispatch(level, fast_unknowns, fast_dir)
              rmtree_fails == step.dir = "absent" \/ ~deleted
          IN  /\ raised # "" => level = 2
              /\ deleted => (fast_self.clean_FAST_directory /\ raised = "")
              /\ fast_heap' = model.objects
              /\ IF raised # ""
                 THEN /\ fast_trace' = step.trace
                      /\ fast_dir' = step.dir
                      /\ fast_unknowns' = fast_unknowns
                      /\ fast_pc' = raised
                 ELSE /\ fast_unknowns' = [step.unknowns EXCEPT !.fst_vt_out = model.fst_vt]
                      /\ IF fast_self.clean_FAST_directory
                         THEN IF rmtree_fails
                              THEN /\ fast_trace' = step.trace \o <<"rmtree", "print">>
                                   /\ fast_dir' = step.dir
                              ELSE /\ fast_trace' = Append(step.trace, "rmtree")
                                   /\ fast_dir' = "absent"
                         ELSE /\ fast_trace' = step.trace
                              /\ fast_dir' = step.dir
                      /\ fast_pc' = "returned"
    /\ UNCHANGED <<fast_self, fast_params>>
    /\ UNCHANGED notFast

\* the reference models handed in as fst_vt_in, with and without values
\* that update_FAST_model overwrites
ReferenceModels ==
    {[Fst |-> [OutFileFmt |-> f, TMax |-> 100],
      ElastoDyn |-> [TipRad |-> 63, HubRad |-> 2, TowerHt |-> h],
      InflowWind |-> [RefHt |-> 90, PLexp |-> 0],
      AeroDyn15 |-> [AirDens |-> 1, KinVisc |-> 0]] : f \in {1, 2}, h \in {80, 88}}

\* a driver sets the preferences at construction and the params before the
\* evaluation; the outputs have the values of add_output
InitFast ==
    /\ OnlyFast
    /\ fast_self \in [Analysis_Level : 0..3, clean_FAST_directory : BOOLEAN]
    /\ \E Rtip \in {60, 63}, hubHt \in {80, 90} :
          fast_params = [fst_vt_in |-> 1, Rtip |-> Rtip, Rhub |-> 2, hubHt |-> hubHt,
                         shearExp |-> 0, rho |-> 1, mu |-> 0]
    /\ \E fst_vt \in ReferenceModels : fast_heap = <<fst_vt>>
    /\ fast_unknowns = [fst_vt_out |-> 0, model_updated |-> FALSE, FASTpref_updated |-> "",
                        dx_defl |-> "", loads_Px |-> "", P_out |-> ""]
    /\ fast_dir \in {"absent", "stale"}
    /\ fast_trace = <<>>
    /\ fast_pc = "set"

NextFast == FASTLoadCases_solve_nonlinear

SpecFast == InitFast /\ [][NextFast]_vars

Invoked(name) == \E k \in 1..Len(fast_trace) : fast_trace[k] = name

\* the dispatch on Analysis_Level, in the state after solve_nonlinear
DispatchedOnLevel ==
    /\ Invoked("DLC_creation") <=> fast_self.Analysis_Level = 2
    /\ Invoked("run_FAST") <=> fast_self.Analysis_Level = 2
    /\ Invoked("post_process") <=> fast_self.Analysis_Level = 2
    /\ Invoked("write_FAST") <=> fast_self.Analysis_Level = 1
    /\ fast_unknowns.model_updated <=> fast_self.Analysis_Level = 1

===========================================================================
